---------------------------- MODULE Spec2Model ----------------------------
(***************************************************************************)
(* Model of arch/src/x86_64/mod.rs of cloud-hypervisor: the CPUID table    *)
(* operations (CpuidPatch, CpuidFeatureEntry, update_cpuid_sgx), the       *)
(* per-vCPU configuration (configure_vcpu), the guest RAM plan             *)
(* (arch_memory_regions) and the PVH boot descriptors (configure_pvh).     *)
(*                                                                         *)
(* Representation of machine words.  TLC integers are 32-bit signed, so a  *)
(* u32 or u64 is modelled as the set of its set bit positions: `|` is      *)
(* \cup, `&` is \cap, `^` is the symmetric difference and `== 0` is = {}.  *)
(* Numeric comparison of two words is done on the bit sets (LeqWord).      *)
(* Sub-leaf indices, vCPU ids and guest addresses of the boot layout stay  *)
(* integers: they are small in every case the model enumerates.            *)
(***************************************************************************)
EXTENDS Integers, Sequences, FiniteSets, TLC

VARIABLES
    \* ---- CpuidFeatureEntry::check_cpuid_compatibility ----
    src_vm_cpuid,    \* the source VM's table (argument)
    dest_vm_cpuid,   \* the destination VM's table (argument)
    compat,          \* [called, result, log]: the outcome and the error! lines
    \* ---- CpuidPatch::patch_cpuid, update_cpuid_sgx on one table ----
    cpuid,           \* the table (&mut Vec<CpuIdEntry>)
    cpuid_prev,      \* the table as it was when the last call started
    call,            \* the last call: its name, arguments and result
    \* ---- configure_vcpu, one call per vCPU thread ----
    common_cpuid,    \* the table generate_common_cpuid returned, shared read-only
    kvm_hyperv,      \* the kvm_hyperv argument (the same for every vCPU)
    boot_setup,      \* the boot_setup argument (the same for every vCPU)
    vcpus,           \* per vCPU id: pc, its cpuid clone, the table committed to
                     \* the vCPU, the back-end calls made so far, the result
    \* ---- arch_memory_regions, guest memory, configure_pvh ----
    mem_size,        \* the RAM size requested
    overflow_checks, \* the build panics on integer overflow (debug) or wraps
    args,            \* configure_pvh's arguments
    regions,         \* what arch_memory_regions returned
    guest_mem,       \* the guest memory: its RAM ranges, the objects written
    pvh,             \* configure_pvh's position, locals and result
    sys,             \* configure_system's position and result
    \* ---- generate_common_cpuid ----
    host_cpuid,      \* the table hypervisor.get_cpuid() reports
    gen_args,        \* topology, sgx_epc_sections, kvm_hyperv
    gen_out,         \* what generate_common_cpuid returned
    \* ---- add_memmap_entry on a list of its own ----
    memmap_vec,      \* the Vec<hvm_memmap_table_entry> the calls push to
    memmap_calls,    \* the (addr, size, type) triples passed so far
    \* ---- initramfs_load_addr ----
    initramfs_env,   \* the guest memory passed and the host's page size
    initramfs_ret    \* the last call: its initramfs_size and what it returned

compatVars == <<src_vm_cpuid, dest_vm_cpuid, compat>>
cpuidVars == <<cpuid, cpuid_prev, call>>

vcpuVars == <<common_cpuid, kvm_hyperv, boot_setup, vcpus>>

bootVars == <<mem_size, overflow_checks, args, regions, guest_mem, pvh, sys>>

genVars == <<host_cpuid, gen_args, gen_out>>

memmapVars == <<memmap_vec, memmap_calls>>

initramfsVars == <<initramfs_env, initramfs_ret>>

vars == <<compatVars, cpuidVars, vcpuVars, bootVars, genVars, memmapVars, initramfsVars>>

\* What an action of one part leaves alone: the state of the other parts.
notCompat == <<cpuidVars, vcpuVars, bootVars, genVars, memmapVars, initramfsVars>>
notCpuid == <<compatVars, vcpuVars, bootVars, genVars, memmapVars, initramfsVars>>
notVcpu == <<compatVars, cpuidVars, bootVars, genVars, memmapVars, initramfsVars>>
notBoot == <<compatVars, cpuidVars, vcpuVars, genVars, memmapVars, initramfsVars>>
notGen == <<compatVars, cpuidVars, vcpuVars, bootVars, memmapVars, initramfsVars>>
notMemmap == <<compatVars, cpuidVars, vcpuVars, bootVars, genVars, initramfsVars>>
notInitramfs == <<compatVars, cpuidVars, vcpuVars, bootVars, genVars, memmapVars>>

---------------------------------------------------------------------------
(* Machine words as bit sets *)

\* The word whose value is n (0 <= n < 2^31).
Bits(n) == {i \in 0..30 : (n \div (2^i)) % 2 = 1}

\* The u32 with high half hi and low half lo (each 0..65535).
Word(hi, lo) == {i \in 0..15 : (lo \div (2^i)) % 2 = 1}
                \cup {i + 16 : i \in {j \in 0..15 : (hi \div (2^j)) % 2 = 1}}

SetMax(S) == CHOOSE m \in S : \A x \in S : x <= m

\* a ^ b
XorWord(a, b) == (a \ b) \cup (b \ a)

\* a <= b as unsigned numbers: equal, or the highest differing bit is b's.
LeqWord(a, b) == a = b \/ SetMax(XorWord(a, b)) \in b

\* 1 << bit
Bit(bit) == {bit}

\* Option::None of an optional number (a bit position, a sub-leaf).
None == -1

---------------------------------------------------------------------------
(* CPUID entries *)

\* hypervisor::arch::x86::CPUID_FLAG_VALID_INDEX (bit 0 of flags).
CPUID_FLAG_VALID_INDEX == Bit(0)

\* CpuIdEntry; Default::default() is all zero.
CpuIdEntry(function, index, flags, eax, ebx, ecx, edx) ==
    [function |-> function, index |-> index, flags |-> flags,
     eax |-> eax, ebx |-> ebx, ecx |-> ecx, edx |-> edx]

CpuidReg == {"EAX", "EBX", "ECX", "EDX"}

\* match reg { EAX => entry.eax, ... }
RegVal(entry, reg) ==
    CASE reg = "EAX" -> entry.eax
      [] reg = "EBX" -> entry.ebx
      [] reg = "ECX" -> entry.ecx
      [] reg = "EDX" -> entry.edx

\* match reg { EAX => entry.eax = value, ... }
SetReg(entry, reg, value) ==
    CASE reg = "EAX" -> [entry EXCEPT !.eax = value]
      [] reg = "EBX" -> [entry EXCEPT !.ebx = value]
      [] reg = "ECX" -> [entry EXCEPT !.ecx = value]
      [] reg = "EDX" -> [entry EXCEPT !.edx = value]

\* The leaves the module names.
LEAF_1 == Word(0, 1)
LEAF_7 == Word(0, 7)
LEAF_B == Word(0, 11)
LEAF_12 == Word(0, 18)
LEAF_1F == Word(0, 31)
LEAF_4000_0000 == Word(16384, 0)
LEAF_4000_0001 == Word(16384, 1)
LEAF_8000_0001 == Word(32768, 1)

---------------------------------------------------------------------------
(* CpuidFeatureEntry: the migration compatibility check *)

CpuidFeatureEntry(function, index, feature_reg, compatible_check) ==
    [function |-> function, index |-> index, feature_reg |-> feature_reg,
     compatible_check |-> compatible_check]

checked_feature_entry_list ==
    << CpuidFeatureEntry(LEAF_1, 0, "ECX", "BitwiseSubset"),
       CpuidFeatureEntry(LEAF_1, 0, "EDX", "BitwiseSubset"),
       CpuidFeatureEntry(LEAF_7, 0, "EAX", "NumNotGreater"),
       CpuidFeatureEntry(LEAF_7, 0, "EBX", "BitwiseSubset"),
       CpuidFeatureEntry(LEAF_7, 0, "ECX", "BitwiseSubset"),
       CpuidFeatureEntry(LEAF_7, 0, "EDX", "BitwiseSubset"),
       CpuidFeatureEntry(LEAF_7, 1, "EAX", "BitwiseSubset"),
       CpuidFeatureEntry(LEAF_8000_0001, 0, "ECX", "BitwiseSubset"),
       CpuidFeatureEntry(LEAF_8000_0001, 0, "EDX", "BitwiseSubset"),
       CpuidFeatureEntry(LEAF_4000_0000, 0, "EAX", "NumNotGreater"),
       CpuidFeatureEntry(LEAF_4000_0000, 0, "EBX", "Equal"),
       CpuidFeatureEntry(LEAF_4000_0000, 0, "ECX", "Equal"),
       CpuidFeatureEntry(LEAF_4000_0000, 0, "EDX", "Equal"),
       CpuidFeatureEntry(LEAF_4000_0001, 0, "EAX", "BitwiseSubset"),
       CpuidFeatureEntry(LEAF_4000_0001, 0, "EBX", "BitwiseSubset"),
       CpuidFeatureEntry(LEAF_4000_0001, 0, "ECX", "BitwiseSubset"),
       CpuidFeatureEntry(LEAF_4000_0001, 0, "EDX", "BitwiseSubset") >>

\* The inner loop of get_features_from_cpuid from entry k on: the register of
\* the first entry with the rule's leaf and sub-leaf, 0 when there is none.
RECURSIVE FeatureFrom(_, _, _)
FeatureFrom(table, k, feature_entry) ==
    IF k > Len(table) THEN {}
    ELSE IF table[k].function = feature_entry.function
            /\ table[k].index = feature_entry.index
         THEN RegVal(table[k], feature_entry.feature_reg)
         ELSE FeatureFrom(table, k + 1, feature_entry)

get_features_from_cpuid(table, feature_entry_list) ==
    [i \in 1..Len(feature_entry_list) |-> FeatureFrom(table, 1, feature_entry_list[i])]

\* A slip in the not-greater arm: < for <=.
EntryCompatibleStrict(compatible_check, src_vm_feature, dest_vm_feature) ==
    CASE compatible_check = "BitwiseSubset" ->
            (XorWord(src_vm_feature, dest_vm_feature) \cap src_vm_feature) = {}
      [] compatible_check = "Equal" -> src_vm_feature = dest_vm_feature
      [] compatible_check = "NumNotGreater" ->
            LeqWord(src_vm_feature, dest_vm_feature) /\ src_vm_feature # dest_vm_feature

\* let entry_compatible = match entry.compatible_check { ... }
EntryCompatible(compatible_check, src_vm_feature, dest_vm_feature) ==
    CASE compatible_check = "BitwiseSubset" ->
            (XorWord(src_vm_feature, dest_vm_feature) \cap src_vm_feature) = {}
      [] compatible_check = "Equal" -> src_vm_feature = dest_vm_feature
      [] compatible_check = "NumNotGreater" -> LeqWord(src_vm_feature, dest_vm_feature)

\* What error! prints for an incompatible rule.
LogLine(entry, src_vm_feature, dest_vm_feature) ==
    [function |-> entry.function, index |-> entry.index,
     feature_reg |-> entry.feature_reg, compatible_check |-> entry.compatible_check,
     src |-> src_vm_feature, dest |-> dest_vm_feature]

\* The loop as it would be with an early exit: it stops at the first
\* incompatible rule.
RECURSIVE CompatLoopShortCircuit(_, _, _, _, _)
CompatLoopShortCircuit(i, feature_entry_list, src_vm_features, dest_vm_features, acc) ==
    IF i > Len(src_vm_features) \/ i > Len(dest_vm_features) THEN acc
    ELSE LET entry == feature_entry_list[i]
             entry_compatible ==
                 EntryCompatible(entry.compatible_check,
                                 src_vm_features[i], dest_vm_features[i])
         IN IF entry_compatible
            THEN CompatLoopShortCircuit(i + 1, feature_entry_list,
                                        src_vm_features, dest_vm_features, acc)
            ELSE [compatible |-> FALSE,
                  log |-> Append(acc.log,
                             LogLine(entry, src_vm_features[i], dest_vm_features[i]))]

\* The loop over the zipped feature vectors from rule i on; acc is
\* [compatible, log].
RECURSIVE CompatLoop(_, _, _, _, _)
CompatLoop(i, feature_entry_list, src_vm_features, dest_vm_features, acc) ==
    IF i > Len(src_vm_features) \/ i > Len(dest_vm_features) THEN acc
    ELSE LET entry == feature_entry_list[i]
             entry_compatible ==
                 EntryCompatible(entry.compatible_check,
                                 src_vm_features[i], dest_vm_features[i])
         IN CompatLoop(i + 1, feature_entry_list, src_vm_features, dest_vm_features,
                IF entry_compatible THEN acc
                ELSE [compatible |-> FALSE,
                      log |-> Append(acc.log,
                                 LogLine(entry, src_vm_features[i], dest_vm_features[i]))])

\* check_cpuid_compatibility: [result, log].
check_cpuid_compatibility(src, dest) ==
    LET feature_entry_list == checked_feature_entry_list
        src_vm_features == get_features_from_cpuid(src, feature_entry_list)
        dest_vm_features == get_features_from_cpuid(dest, feature_entry_list)
        out == CompatLoop(1, feature_entry_list, src_vm_features, dest_vm_features,
                          [compatible |-> TRUE, log |-> <<>>])
    IN [result |-> IF out.compatible THEN "Ok" ELSE "CpuidCheckCompatibility",
        log |-> out.log]

\* ---- the tables the check is run on ----

\* The longest table the compatibility runs enumerate.
MaxCompatEntries == 2

\* Two register fillings: they differ as bit sets and as numbers, in both
\* directions, and use bit 31.
CompatRegsA == [eax |-> Bits(4), ebx |-> {2, 30}, ecx |-> {30}, edx |-> {31}]
CompatRegsB == [eax |-> Bits(3), ebx |-> {2}, ecx |-> {2, 30}, edx |-> {0, 1}]

\* Every (leaf, sub-leaf) a rule names, with the fillings it is tried with.
CompatLeaves ==
    { <<LEAF_7, 0, CompatRegsA>>, <<LEAF_7, 0, CompatRegsB>>,
      <<LEAF_4000_0000, 0, CompatRegsA>>, <<LEAF_4000_0000, 0, CompatRegsB>>,
      <<LEAF_1, 0, CompatRegsA>>, <<LEAF_7, 1, CompatRegsB>>,
      <<LEAF_8000_0001, 0, CompatRegsA>>, <<LEAF_4000_0001, 0, CompatRegsB>> }

CompatEntries ==
    { CpuIdEntry(l[1], l[2], {}, l[3].eax, l[3].ebx, l[3].ecx, l[3].edx) :
          l \in CompatLeaves }

CompatTables ==
    UNION { [1..n -> CompatEntries] : n \in 0..MaxCompatEntries }

CompatInit ==
    /\ src_vm_cpuid \in CompatTables
    /\ dest_vm_cpuid \in CompatTables
    /\ compat = [called |-> FALSE, result |-> "none", log |-> <<>>]

CheckCompat ==
    /\ ~compat.called
    /\ LET r == check_cpuid_compatibility(src_vm_cpuid, dest_vm_cpuid)
       IN compat' = [called |-> TRUE, result |-> r.result, log |-> r.log]
    /\ UNCHANGED <<src_vm_cpuid, dest_vm_cpuid>>
    /\ UNCHANGED notCompat

\* The check is not in use.
CompatIdle ==
    /\ src_vm_cpuid = <<>>
    /\ dest_vm_cpuid = <<>>
    /\ compat = [called |-> FALSE, result |-> "none", log |-> <<>>]

CompatNext == CheckCompat

---------------------------------------------------------------------------
(* CpuidPatch: the bit-patch engine *)

CpuidPatch(function, index, flags_bit, eax_bit, ebx_bit, ecx_bit, edx_bit) ==
    [function |-> function, index |-> index, flags_bit |-> flags_bit,
     eax_bit |-> eax_bit, ebx_bit |-> ebx_bit, ecx_bit |-> ecx_bit,
     edx_bit |-> edx_bit]

\* if let Some(bit) = opt { word |= 1 << bit }
OrBit(word, opt) == IF opt = None THEN word ELSE word \cup Bit(opt)

\* The same with ^= for |=.
XorBit(word, opt) == IF opt = None THEN word ELSE XorWord(word, Bit(opt))

\* set_cpuid_reg stopping at the first matching entry.
set_cpuid_reg_first_match(table, function, index, reg, value) ==
    LET matches(entry) ==
            entry.function = function /\ (index = None \/ index = entry.index)
        found == {k \in 1..Len(table) : matches(table[k])}
        first == CHOOSE k \in found : \A j \in found : k <= j
    IN IF found # {}
       THEN [k \in 1..Len(table) |->
                IF k = first THEN SetReg(table[k], reg, value) ELSE table[k]]
       ELSE IF index # None
            THEN Append(table,
                     SetReg(CpuIdEntry(function, index, CPUID_FLAG_VALID_INDEX,
                                       {}, {}, {}, {}), reg, value))
            ELSE table

\* set_cpuid_reg creating sub-leaf 0 when no sub-leaf is given.
set_cpuid_reg_always_adds(table, function, index, reg, value) ==
    LET matches(entry) ==
            entry.function = function /\ (index = None \/ index = entry.index)
        entry_found == \E k \in 1..Len(table) : matches(table[k])
    IN IF entry_found
       THEN [k \in 1..Len(table) |->
                IF matches(table[k]) THEN SetReg(table[k], reg, value) ELSE table[k]]
       ELSE Append(table,
                SetReg(CpuIdEntry(function, IF index = None THEN 0 ELSE index,
                                  CPUID_FLAG_VALID_INDEX, {}, {}, {}, {}),
                       reg, value))

\* CpuidPatch::set_cpuid_reg
set_cpuid_reg(table, function, index, reg, value) ==
    LET matches(entry) ==
            entry.function = function /\ (index = None \/ index = entry.index)
        entry_found == \E k \in 1..Len(table) : matches(table[k])
    IN IF entry_found
       THEN [k \in 1..Len(table) |->
                IF matches(table[k]) THEN SetReg(table[k], reg, value) ELSE table[k]]
       ELSE IF index # None
            THEN Append(table,
                     SetReg(CpuIdEntry(function, index, CPUID_FLAG_VALID_INDEX,
                                       {}, {}, {}, {}), reg, value))
            ELSE table

\* A patch that toggles bits instead of setting them.
ApplyPatchXor(entry, patch) ==
    IF entry.function = patch.function /\ entry.index = patch.index
    THEN [entry EXCEPT !.flags = XorBit(@, patch.flags_bit),
                       !.eax = XorBit(@, patch.eax_bit),
                       !.ebx = XorBit(@, patch.ebx_bit),
                       !.ecx = XorBit(@, patch.ecx_bit),
                       !.edx = XorBit(@, patch.edx_bit)]
    ELSE entry

\* The body of patch_cpuid's inner loop: one patch on one entry.
ApplyPatch(entry, patch) ==
    IF entry.function = patch.function /\ entry.index = patch.index
    THEN [entry EXCEPT !.flags = OrBit(@, patch.flags_bit),
                       !.eax = OrBit(@, patch.eax_bit),
                       !.ebx = OrBit(@, patch.ebx_bit),
                       !.ecx = OrBit(@, patch.ecx_bit),
                       !.edx = OrBit(@, patch.edx_bit)]
    ELSE entry

\* for patch in patches.iter() { ... } on one entry, from patch k on.
RECURSIVE ApplyPatches(_, _, _)
ApplyPatches(entry, patches, k) ==
    IF k > Len(patches) THEN entry
    ELSE ApplyPatches(ApplyPatch(entry, patches[k]), patches, k + 1)

\* CpuidPatch::patch_cpuid
patch_cpuid(table, patches) ==
    [i \in 1..Len(table) |-> ApplyPatches(table[i], patches, 1)]

\* is_feature_enabled from entry k on: the first entry with the leaf and
\* sub-leaf decides; false when there is none.
RECURSIVE FeatureEnabledFrom(_, _, _, _, _, _)
FeatureEnabledFrom(table, k, function, index, reg, feature_bit) ==
    IF k > Len(table) THEN FALSE
    ELSE IF table[k].function = function /\ table[k].index = index
         THEN (RegVal(table[k], reg) \cap Bit(feature_bit)) = Bit(feature_bit)
         ELSE FeatureEnabledFrom(table, k + 1, function, index, reg, feature_bit)

\* CpuidPatch::is_feature_enabled
is_feature_enabled(table, function, index, reg, feature_bit) ==
    FeatureEnabledFrom(table, 1, function, index, reg, feature_bit)

---------------------------------------------------------------------------
(* update_cpuid_sgx *)

\* A u64 is a set of bit positions 0..63.
\* (x & 0xffff_f000) as u32
Low32PageMasked(x) == {b \in x : 12 <= b /\ b <= 31}

\* (x >> 32) as u32
High32(x) == {b - 32 : b \in {c \in x : c >= 32}}

SgxEpcSection(start, size) == [start |-> start, size |-> size]

\* The four set_cpuid_reg calls of one sub-leaf.
SetSgxSubleaf(table, subleaf_idx, eax, ebx, ecx, edx) ==
    LET t1 == set_cpuid_reg(table, LEAF_12, subleaf_idx, "EAX", eax)
        t2 == set_cpuid_reg(t1, LEAF_12, subleaf_idx, "EBX", ebx)
        t3 == set_cpuid_reg(t2, LEAF_12, subleaf_idx, "ECX", ecx)
    IN set_cpuid_reg(t3, LEAF_12, subleaf_idx, "EDX", edx)

\* The sub-leaf of the section at position i (0-based): i + 1 for i + 2.
SgxSubleafIdxOffByOne(i) == i + 1

\* let subleaf_idx = i + 2;
SgxSubleafIdx(i) == i + 2

\* for (i, epc_section) in epc_sections.iter().enumerate(), from the section
\* at 1-based position k on; leaf_ecx is the host's CPUID.(0x12, 2).ECX.
RECURSIVE SgxLoop(_, _, _, _)
SgxLoop(table, epc_sections, k, leaf_ecx) ==
    IF k > Len(epc_sections) THEN table
    ELSE LET start == epc_sections[k].start
             size == epc_sections[k].size
             eax == Low32PageMasked(start) \cup Bit(0)
             ebx == High32(start)
             ecx == Low32PageMasked(size) \cup (leaf_ecx \cap Bits(15))
             edx == High32(size)
         IN SgxLoop(SetSgxSubleaf(table, SgxSubleafIdx(k - 1), eax, ebx, ecx, edx),
                    epc_sections, k + 1, leaf_ecx)

\* The precondition checks of update_cpuid_sgx with the two feature checks
\* in the other order.
SgxPreconditionSwapped(table, epc_sections) ==
    IF Len(epc_sections) = 0 THEN "NoSgxEpcSection"
    ELSE IF ~is_feature_enabled(table, LEAF_7, 0, "ECX", 30)
         THEN "MissingSgxLaunchControlFeature"
    ELSE IF ~is_feature_enabled(table, LEAF_7, 0, "EBX", 2)
         THEN "MissingSgxFeature"
    ELSE "Ok"

\* The three early returns of update_cpuid_sgx.
SgxPrecondition(table, epc_sections) ==
    IF Len(epc_sections) = 0 THEN "NoSgxEpcSection"
    ELSE IF ~is_feature_enabled(table, LEAF_7, 0, "EBX", 2)
         THEN "MissingSgxFeature"
    ELSE IF ~is_feature_enabled(table, LEAF_7, 0, "ECX", 30)
         THEN "MissingSgxLaunchControlFeature"
    ELSE "Ok"

\* update_cpuid_sgx: [result, cpuid].
update_cpuid_sgx(table, epc_sections, leaf_ecx) ==
    LET pre == SgxPrecondition(table, epc_sections)
    IN IF pre # "Ok" THEN [result |-> pre, cpuid |-> table]
       ELSE [result |-> "Ok",
             cpuid |-> SetSgxSubleaf(SgxLoop(table, epc_sections, 1, leaf_ecx),
                                     SgxSubleafIdx(Len(epc_sections)),
                                     {}, {}, {}, {})]

---------------------------------------------------------------------------
(* update_cpuid_topology *)

\* u8::leading_zeros
LeadingZeros8(x) == 8 - Cardinality({i \in 0..7 : 2^i <= x})

\* 8 - (count - 1).leading_zeros()
CountWidth(count) == 8 - LeadingZeros8(count - 1)

\* A product of u8 counts wraps to 8 bits.
MulU8(a, b) == (a * b) % 256

\* A u8 product of the counts exceeds 255: a build with overflow checks
\* panics at the first of them (dies * cores * threads, for leaf 0xb).
TopologyOverflows(threads_per_core, cores_per_die, dies_per_package) ==
    \/ dies_per_package * cores_per_die > 255
    \/ MulU8(dies_per_package, cores_per_die) * threads_per_core > 255
    \/ cores_per_die * threads_per_core > 255

\* The three set_cpuid_reg calls of one topology sub-leaf.
SetTopologySubleaf(table, function, index, eax, ebx, ecx) ==
    LET t1 == set_cpuid_reg(table, function, index, "EAX", Bits(eax))
        t2 == set_cpuid_reg(t1, function, index, "EBX", Bits(ebx))
    IN set_cpuid_reg(t2, function, index, "ECX", Bits(ecx))

\* update_cpuid_topology with the core width at leaf 0xb, sub-leaf 1.
update_cpuid_topology_core_at_b(table, threads_per_core, cores_per_die, dies_per_package) ==
    LET thread_width == CountWidth(threads_per_core)
        core_width == CountWidth(cores_per_die) + thread_width
        die_width == CountWidth(dies_per_package) + core_width
        all == MulU8(MulU8(dies_per_package, cores_per_die), threads_per_core)
        t1 == SetTopologySubleaf(table, LEAF_B, 0, thread_width, threads_per_core, 256)
        t2 == SetTopologySubleaf(t1, LEAF_B, 1, core_width, all, 512)
        t3 == SetTopologySubleaf(t2, LEAF_1F, 0, thread_width, threads_per_core, 256)
        t4 == SetTopologySubleaf(t3, LEAF_1F, 1, core_width,
                                 MulU8(cores_per_die, threads_per_core), 512)
    IN SetTopologySubleaf(t4, LEAF_1F, 2, die_width, all, 1280)

\* update_cpuid_topology (the table it leaves when no product panics).
update_cpuid_topology(table, threads_per_core, cores_per_die, dies_per_package) ==
    LET thread_width == CountWidth(threads_per_core)
        core_width == CountWidth(cores_per_die) + thread_width
        die_width == CountWidth(dies_per_package) + core_width
        all == MulU8(MulU8(dies_per_package, cores_per_die), threads_per_core)
        t1 == SetTopologySubleaf(table, LEAF_B, 0, thread_width, threads_per_core, 256)
        t2 == SetTopologySubleaf(t1, LEAF_B, 1, die_width, all, 512)
        t3 == SetTopologySubleaf(t2, LEAF_1F, 0, thread_width, threads_per_core, 256)
        t4 == SetTopologySubleaf(t3, LEAF_1F, 1, core_width,
                                 MulU8(cores_per_die, threads_per_core), 512)
    IN SetTopologySubleaf(t4, LEAF_1F, 2, die_width, all, 1280)

\* ---- the tables and arguments the CPUID operations are run on ----

\* A host-reported table is a selection of these rows, in leaf order; the
\* feature leaf 7 comes in three fillings (SGX and SGX_LC, SGX only, SGX_LC
\* only).  Leaf 0x12 is reported with its sub-leaves 0 and 1 only.
HostLeaf1 == << CpuIdEntry(LEAF_1, 0, {}, Bits(2), {}, Bit(0), {3, 12}) >>
HostLeaf7 ==
    { << >>,
      << CpuIdEntry(LEAF_7, 0, CPUID_FLAG_VALID_INDEX, {}, Bit(2), Bit(30), {}) >>,
      << CpuIdEntry(LEAF_7, 0, CPUID_FLAG_VALID_INDEX, {}, Bit(2), {}, {}) >>,
      << CpuIdEntry(LEAF_7, 0, CPUID_FLAG_VALID_INDEX, {}, {}, Bit(30), {}) >> }
HostLeaf7Sub1 ==
    << CpuIdEntry(LEAF_7, 1, CPUID_FLAG_VALID_INDEX, Bit(4), Bit(2), Bit(30), {}) >>
HostLeafB ==
    << CpuIdEntry(LEAF_B, 0, CPUID_FLAG_VALID_INDEX, Bits(1), Bits(2), Bits(256), Bits(7)),
       CpuIdEntry(LEAF_B, 1, CPUID_FLAG_VALID_INDEX, Bits(4), Bits(8), Bits(513), Bits(7)) >>
HostLeaf12 ==
    << CpuIdEntry(LEAF_12, 0, CPUID_FLAG_VALID_INDEX, Bits(3), {}, {}, Bits(31)),
       CpuIdEntry(LEAF_12, 1, CPUID_FLAG_VALID_INDEX, Bits(54), {}, Bits(231), {}) >>

Opt(row) == {<< >>, row}

CpuidTables ==
    { a \o b \o c \o d \o e :
        a \in Opt(HostLeaf1), b \in HostLeaf7, c \in Opt(HostLeaf7Sub1),
        d \in Opt(HostLeafB), e \in Opt(HostLeaf12) }

\* The longest patch list and the largest number of EPC sections tried.
MaxPatches == 2
MaxSections == 2

\* The three patches generate_common_cpuid applies, one that sets a bit in
\* flags and in every register, and one on a topology sub-leaf.
PatchPool ==
    { CpuidPatch(LEAF_1, 0, None, None, None, 24, None),
      CpuidPatch(LEAF_1, 0, None, None, None, 31, None),
      CpuidPatch(LEAF_1, 0, None, None, None, None, 12),
      CpuidPatch(LEAF_7, 0, 1, 0, 2, 30, 5),
      CpuidPatch(LEAF_B, 1, None, 2, None, 0, None) }

PatchLists == UNION { [1..n -> PatchPool] : n \in 0..MaxPatches }

\* EPC sections: start and size with bits below 4 KiB (dropped), in the low
\* word and in the high word.
SectionPool ==
    { SgxEpcSection({5, 12, 33}, {12, 20}),
      SgxEpcSection({31, 40}, {3, 16, 32}),
      SgxEpcSection({13}, {1}) }

SectionLists == UNION { [1..n -> SectionPool] : n \in 0..MaxSections }

\* The host's CPUID.(0x12, 2).ECX: only its low four bits are used.
HostLeaf12Ecx == { {}, {0, 1}, {0, 5} }

NoCall == [op |-> "none"]

CpuidInit ==
    /\ cpuid \in CpuidTables
    /\ cpuid_prev = cpuid
    /\ call = NoCall

CpuidIdle ==
    /\ cpuid = << >>
    /\ cpuid_prev = << >>
    /\ call = NoCall

\* CpuidPatch::patch_cpuid(&mut cpuid, patches)
PatchCpuid ==
    /\ call.op = "none"
    /\ \E patches \in PatchLists :
          /\ cpuid' = patch_cpuid(cpuid, patches)
          /\ call' = [op |-> "patch_cpuid", patches |-> patches, n |-> 1]
    /\ cpuid_prev' = cpuid
    /\ UNCHANGED notCpuid

\* The same patch list applied a second time.
PatchCpuidAgain ==
    /\ call.op = "patch_cpuid"
    /\ call.n = 1
    /\ cpuid' = patch_cpuid(cpuid, call.patches)
    /\ call' = [call EXCEPT !.n = 2]
    /\ cpuid_prev' = cpuid
    /\ UNCHANGED notCpuid

\* update_cpuid_sgx(&mut cpuid, epc_sections)
UpdateCpuidSgx ==
    /\ call.op = "none"
    /\ \E epc_sections \in SectionLists, leaf_ecx \in HostLeaf12Ecx :
          LET r == update_cpuid_sgx(cpuid, epc_sections, leaf_ecx)
          IN /\ cpuid' = r.cpuid
             /\ call' = [op |-> "update_cpuid_sgx", epc_sections |-> epc_sections,
                         leaf_ecx |-> leaf_ecx, result |-> r.result]
    /\ cpuid_prev' = cpuid
    /\ UNCHANGED notCpuid

\* The leaves, sub-leaves and values set_cpuid_reg is called with.
SetRegLeaves == {LEAF_1, LEAF_7, LEAF_B, LEAF_12, LEAF_4000_0001}
SetRegIndexes == {None, 0, 1, 3}
SetRegValues == { {}, {0, 4, 31} }

\* CpuidPatch::set_cpuid_reg(&mut cpuid, function, index, reg, value)
SetCpuidReg ==
    /\ call.op = "none"
    /\ \E function \in SetRegLeaves, index \in SetRegIndexes,
          reg \in CpuidReg, value \in SetRegValues :
          /\ cpuid' = set_cpuid_reg(cpuid, function, index, reg, value)
          /\ call' = [op |-> "set_cpuid_reg", function |-> function,
                      index |-> index, reg |-> reg, value |-> value]
    /\ cpuid_prev' = cpuid
    /\ UNCHANGED notCpuid

\* (threads_per_core, cores_per_die, dies_per_package): counts of 1, powers
\* of two, a count that is no power of two, and counts whose product leaves
\* the u8 range.
Topologies ==
    { <<t, c, d>> : t \in {1, 2}, c \in {1, 3, 16}, d \in {1, 2, 16} }

\* update_cpuid_topology(&mut cpuid, threads, cores, dies), in a build with
\* or without overflow checks.
UpdateCpuidTopology ==
    /\ call.op = "none"
    /\ \E t \in Topologies, checks \in BOOLEAN :
          IF checks /\ TopologyOverflows(t[1], t[2], t[3])
          THEN /\ call' = [op |-> "update_cpuid_topology", topology |-> t,
                           result |-> "panic"]
               /\ UNCHANGED cpuid
          ELSE /\ call' = [op |-> "update_cpuid_topology", topology |-> t,
                           result |-> "Ok"]
               /\ cpuid' = update_cpuid_topology(cpuid, t[1], t[2], t[3])
    /\ cpuid_prev' = cpuid
    /\ UNCHANGED notCpuid

CpuidNext ==
    \/ PatchCpuid
    \/ PatchCpuidAgain
    \/ UpdateCpuidSgx
    \/ SetCpuidReg
    \/ UpdateCpuidTopology

---------------------------------------------------------------------------
(* configure_vcpu: one call per vCPU thread, each on its clone of the     *)
(* common table.  Every call into the hypervisor back-end is one step; a  *)
(* fallible call succeeds or fails as the back-end decides.               *)

\* The vCPUs configured concurrently: ids 0 .. NumVcpus - 1.
NumVcpus == 2

VcpuIds == 0..(NumVcpus - 1)

HostLeaf1F ==
    << CpuIdEntry(LEAF_1F, 0, CPUID_FLAG_VALID_INDEX, Bits(1), Bits(2), Bits(256), Bits(7)),
       CpuIdEntry(LEAF_1F, 1, CPUID_FLAG_VALID_INDEX, Bits(3), Bits(4), Bits(513), Bits(7)),
       CpuIdEntry(LEAF_1F, 2, CPUID_FLAG_VALID_INDEX, Bits(4), Bits(8), Bits(1282), Bits(7)) >>

\* The common tables tried: with and without each topology leaf.
VcpuTables ==
    { a \o b \o c : a \in {HostLeaf1}, b \in Opt(HostLeafB), c \in Opt(HostLeaf1F) }

\* boot_setup: None, Some with entry_addr None, Some with entry_addr Some.
BootSetups == {"None", "NoEntryAddr", "EntryAddr"}

\* The per-vCPU patch with Some(0) for None: only sub-leaf 0 gets the id.
PerVcpuCpuidSubleaf0(table, id) ==
    set_cpuid_reg(set_cpuid_reg(table, LEAF_B, 0, "EDX", Bits(id)),
                  LEAF_1F, 0, "EDX", Bits(id))

\* The two set_cpuid_reg calls that open configure_vcpu.
PerVcpuCpuid(table, id) ==
    set_cpuid_reg(set_cpuid_reg(table, LEAF_B, None, "EDX", Bits(id)),
                  LEAF_1F, None, "EDX", Bits(id))

\* The order with setup_fpu and setup_sregs exchanged.
NextStepFpuLast(step, hyperv, boot) ==
    CASE step = "set_cpuid2" ->
            IF hyperv THEN "enable_hyperv_synic" ELSE "setup_msrs"
      [] step = "enable_hyperv_synic" -> "setup_msrs"
      [] step = "setup_msrs" ->
            IF boot = "EntryAddr" THEN "setup_regs" ELSE "set_lint"
      [] step = "setup_regs" -> "setup_sregs"
      [] step = "setup_sregs" -> "setup_fpu"
      [] step = "setup_fpu" -> "set_lint"
      [] step = "set_lint" -> "done"

\* Where configure_vcpu goes after a step that succeeded.
NextStep(step, hyperv, boot) ==
    CASE step = "set_cpuid2" ->
            IF hyperv THEN "enable_hyperv_synic" ELSE "setup_msrs"
      [] step = "enable_hyperv_synic" -> "setup_msrs"
      [] step = "setup_msrs" ->
            IF boot = "EntryAddr" THEN "setup_regs" ELSE "set_lint"
      [] step = "setup_regs" -> "setup_fpu"
      [] step = "setup_fpu" -> "setup_sregs"
      [] step = "setup_sregs" -> "set_lint"
      [] step = "set_lint" -> "done"

\* The map_err of each fallible step.
StepError(step) ==
    CASE step = "set_cpuid2" -> "SetSupportedCpusFailed"
      [] step = "setup_msrs" -> "MsrsConfiguration"
      [] step = "setup_regs" -> "RegsConfiguration"
      [] step = "setup_fpu" -> "FpuConfiguration"
      [] step = "setup_sregs" -> "SregsConfiguration"
      [] step = "set_lint" -> "LocalIntConfiguration"

\* A vCPU thread before its call.
VcpuStart ==
    [pc |-> "start", cpuid |-> << >>, committed |-> FALSE, vcpu_cpuid |-> << >>,
     calls |-> << >>, result |-> "none"]

VcpuInit ==
    /\ common_cpuid \in VcpuTables
    /\ kvm_hyperv \in BOOLEAN
    /\ boot_setup \in BootSetups
    /\ vcpus = [i \in VcpuIds |-> VcpuStart]

VcpuIdle ==
    /\ common_cpuid = << >>
    /\ kvm_hyperv = FALSE
    /\ boot_setup = "None"
    /\ vcpus = << >>

\* The caller hands configure_vcpu a clone of the common table, and the two
\* set_cpuid_reg calls run on it.
ConfigureVcpuPatch(i) ==
    /\ vcpus[i].pc = "start"
    /\ vcpus' = [vcpus EXCEPT ![i].cpuid = PerVcpuCpuid(common_cpuid, i),
                              ![i].pc = "set_cpuid2"]
    /\ UNCHANGED <<common_cpuid, kvm_hyperv, boot_setup>>
    /\ UNCHANGED notVcpu

\* A fallible back-end call: on success the next step, on failure the
\* step's error is returned.
Fallible(i, step) ==
    /\ \E ok \in BOOLEAN :
          vcpus' = [vcpus EXCEPT
              ![i].calls = Append(@, step),
              ![i].pc = IF ok THEN NextStep(step, kvm_hyperv, boot_setup)
                        ELSE "returned",
              ![i].result = IF ok THEN (IF NextStep(step, kvm_hyperv, boot_setup) = "done"
                                        THEN "Ok" ELSE @)
                            ELSE StepError(step),
              ![i].committed = IF step = "set_cpuid2" /\ ok THEN TRUE ELSE @,
              ![i].vcpu_cpuid = IF step = "set_cpuid2" /\ ok THEN vcpus[i].cpuid ELSE @]
    /\ UNCHANGED <<common_cpuid, kvm_hyperv, boot_setup>>
    /\ UNCHANGED notVcpu

\* vcpu.set_cpuid2(&cpuid)
SetCpuid2(i) ==
    /\ vcpus[i].pc = "set_cpuid2"
    /\ Fallible(i, "set_cpuid2")

\* vcpu.enable_hyperv_synic().unwrap(): a failure panics.
EnableHypervSynic(i) ==
    /\ vcpus[i].pc = "enable_hyperv_synic"
    /\ \E ok \in BOOLEAN :
          vcpus' = [vcpus EXCEPT
              ![i].calls = Append(@, "enable_hyperv_synic"),
              ![i].pc = IF ok THEN NextStep("enable_hyperv_synic", kvm_hyperv, boot_setup)
                        ELSE "panicked",
              ![i].result = IF ok THEN @ ELSE "panic"]
    /\ UNCHANGED <<common_cpuid, kvm_hyperv, boot_setup>>
    /\ UNCHANGED notVcpu

\* regs::setup_msrs(vcpu)
SetupMsrs(i) ==
    /\ vcpus[i].pc = "setup_msrs"
    /\ Fallible(i, "setup_msrs")

\* regs::setup_regs(vcpu, entry_addr)
SetupRegs(i) ==
    /\ vcpus[i].pc = "setup_regs"
    /\ Fallible(i, "setup_regs")

\* regs::setup_fpu(vcpu)
SetupFpu(i) ==
    /\ vcpus[i].pc = "setup_fpu"
    /\ Fallible(i, "setup_fpu")

\* regs::setup_sregs(mem, vcpu)
SetupSregs(i) ==
    /\ vcpus[i].pc = "setup_sregs"
    /\ Fallible(i, "setup_sregs")

\* interrupts::set_lint(vcpu)
SetLint(i) ==
    /\ vcpus[i].pc = "set_lint"
    /\ Fallible(i, "set_lint")

---------------------------------------------------------------------------
(* generate_common_cpuid (the build without the tdx feature) *)

LEAF_8000_0002 == Word(32768, 2)
LEAF_8000_0003 == Word(32768, 3)
LEAF_8000_0004 == Word(32768, 4)
LEAF_8000_0006 == Word(32768, 6)
LEAF_8000_0008 == Word(32768, 8)

TSC_DEADLINE_TIMER_ECX_BIT == 24
HYPERVISOR_ECX_BIT == 31
MTRR_EDX_BIT == 12
KVM_FEATURE_ASYNC_PF_INT_BIT == 14

\* The patch list without the hypervisor bit.
cpuid_patches_no_hypervisor ==
    << CpuidPatch(LEAF_1, 0, None, None, None, TSC_DEADLINE_TIMER_ECX_BIT, None),
       CpuidPatch(LEAF_1, 0, None, None, None, None, MTRR_EDX_BIT) >>

\* let cpuid_patches = vec![...]
cpuid_patches ==
    << CpuidPatch(LEAF_1, 0, None, None, None, TSC_DEADLINE_TIMER_ECX_BIT, None),
       CpuidPatch(LEAF_1, 0, None, None, None, HYPERVISOR_ECX_BIT, None),
       CpuidPatch(LEAF_1, 0, None, None, None, None, MTRR_EDX_BIT) >>

\* What the host CPU answers to __cpuid: the brand-string leaves and the L2
\* cache leaf.
HostCpuidLeaf(function) ==
    CASE function = LEAF_8000_0002 -> [eax |-> Bits(1701080649), ebx |-> Bits(693250156),
                                       ecx |-> Bits(1868711200), edx |-> Bits(693250158)]
      [] function = LEAF_8000_0003 -> [eax |-> Bits(1886340896), ebx |-> Bits(21077),
                                       ecx |-> {}, edx |-> {}]
      [] function = LEAF_8000_0004 -> [eax |-> {}, ebx |-> {}, ecx |-> Bits(538976288),
                                       edx |-> Bits(8020)]
      [] function = LEAF_8000_0006 -> [eax |-> {}, ebx |-> {}, ecx |-> Word(256, 28736),
                                       edx |-> {}]

\* The match arms of the loop with the arm of leaf 0x4000_0001 left out.
UpdateExistingEntryKeepsAsyncPfInt(entry, phys_bits, host_has_l2) ==
    IF entry.function = LEAF_8000_0006
    THEN IF entry.eax = {} /\ entry.ebx = {} /\ entry.ecx = {} /\ entry.edx = {}
            /\ host_has_l2
         THEN LET leaf == HostCpuidLeaf(LEAF_8000_0006)
              IN [entry EXCEPT !.eax = leaf.eax, !.ebx = leaf.ebx,
                               !.ecx = leaf.ecx, !.edx = leaf.edx]
         ELSE entry
    ELSE IF entry.function = LEAF_8000_0008
    THEN [entry EXCEPT !.eax = (@ \ (0..7)) \cup (Bits(phys_bits) \cap (0..7))]
    ELSE entry

\* The match arms of the loop "Update some existing CPUID" on one entry;
\* host_has_l2 is __cpuid(0x8000_0000).eax >= 0x8000_0006.
UpdateExistingEntry(entry, phys_bits, host_has_l2) ==
    IF entry.function = LEAF_8000_0006
    THEN IF entry.eax = {} /\ entry.ebx = {} /\ entry.ecx = {} /\ entry.edx = {}
            /\ host_has_l2
         THEN LET leaf == HostCpuidLeaf(LEAF_8000_0006)
              IN [entry EXCEPT !.eax = leaf.eax, !.ebx = leaf.ebx,
                               !.ecx = leaf.ecx, !.edx = leaf.edx]
         ELSE entry
    ELSE IF entry.function = LEAF_8000_0008
    THEN [entry EXCEPT !.eax = (@ \ (0..7)) \cup (Bits(phys_bits) \cap (0..7))]
    ELSE IF entry.function = LEAF_4000_0001
    THEN [entry EXCEPT !.eax = @ \ Bit(KVM_FEATURE_ASYNC_PF_INT_BIT)]
    ELSE entry

\* cpuid.retain(|c| c.function != function)
Retain(table, function) == SelectSeq(table, LAMBDA c : c.function # function)

\* One round of the loop "Copy CPU identification string".
CopyBrandLeaf(table, function) ==
    LET leaf == HostCpuidLeaf(function)
    IN Append(Retain(table, function),
              CpuIdEntry(function, 0, {}, leaf.eax, leaf.ebx, leaf.ecx, leaf.edx))

CopyBrandString(table) ==
    CopyBrandLeaf(CopyBrandLeaf(CopyBrandLeaf(table, LEAF_8000_0002),
                                LEAF_8000_0003), LEAF_8000_0004)

\* The Hyper-V leaves pushed under kvm_hyperv: 0x4000_0000 .. 0x4000_000a.
HypervLeaves ==
    << CpuIdEntry(LEAF_4000_0000, 0, {}, Word(16384, 10), Word(30062, 26956),
                  Word(22091, 8312), Word(30280, 8269)),
       CpuIdEntry(LEAF_4000_0001, 0, {}, Word(12579, 30280), {}, {}, {}),
       CpuIdEntry(Word(16384, 2), 0, {}, Word(0, 14393), Word(10, 0), {}, {}),
       CpuIdEntry(Word(16384, 3), 0, {}, {1, 2, 3, 9}, {}, {}, {3}),
       CpuIdEntry(Word(16384, 4), 0, {}, {5}, {}, {}, {}) >>
    \o [i \in 1..6 |-> CpuIdEntry(Word(16384, 4 + i), 0, {}, {}, {}, {}, {})]

\* The kvm_hyperv block: the two retains, then the pushes.
InjectHyperv(table) ==
    Retain(Retain(table, LEAF_4000_0000), LEAF_4000_0001) \o HypervLeaves

\* generate_common_cpuid from the table the hypervisor reports:
\* [status, cpuid].
generate_common_cpuid(host, topology, sgx_epc_sections, phys_bits, hyperv, host_has_l2, leaf_ecx, checks) ==
    LET patched == patch_cpuid(host, cpuid_patches)
        with_topology ==
            IF Len(topology) = 0 THEN patched
            ELSE update_cpuid_topology(patched, topology[1], topology[2], topology[3])
        sgx == IF sgx_epc_sections.some
               THEN update_cpuid_sgx(with_topology, sgx_epc_sections.sections, leaf_ecx)
               ELSE [result |-> "Ok", cpuid |-> with_topology]
        updated == [k \in 1..Len(sgx.cpuid) |->
                       UpdateExistingEntry(sgx.cpuid[k], phys_bits, host_has_l2)]
        branded == CopyBrandString(updated)
    IN IF Len(topology) # 0 /\ checks
          /\ TopologyOverflows(topology[1], topology[2], topology[3])
       THEN [status |-> "panic", cpuid |-> << >>]
       ELSE IF sgx.result # "Ok"
       THEN [status |-> sgx.result, cpuid |-> << >>]
       ELSE [status |-> "Ok",
             cpuid |-> IF hyperv THEN InjectHyperv(branded) ELSE branded]

\* ---- the host tables and the arguments ----

\* Rows a hypervisor back-end reports: the SGX rows, the topology rows, the
\* KVM signature and feature leaves (async-PF-int advertised), extended
\* leaves (a brand-string leaf, an empty L2 leaf, the address-size leaf), and
\* a leaf of the Hyper-V range.
GenSgxRows ==
    << CpuIdEntry(LEAF_7, 0, CPUID_FLAG_VALID_INDEX, {}, Bit(2), Bit(30), {}) >>
    \o HostLeaf12
GenTopologyRows == HostLeafB \o HostLeaf1F
GenKvmRows ==
    << CpuIdEntry(LEAF_4000_0000, 0, {}, Word(16384, 1), Word(19798, 19787),
                  Word(19798, 22091), Bits(77)),
       CpuIdEntry(LEAF_4000_0001, 0, {}, {0, 3, 4, 14, 24}, {}, {}, {}) >>
GenExtendedRows ==
    << CpuIdEntry(LEAF_8000_0002, 0, {}, Bits(1), Bits(2), Bits(3), Bits(4)),
       CpuIdEntry(LEAF_8000_0006, 0, {}, {}, {}, {}, {}),
       CpuIdEntry(LEAF_8000_0008, 0, {}, Word(0, 12328), {}, {}, {}) >>
GenHypervRangeRows ==
    << CpuIdEntry(Word(16384, 5), 0, {}, Bits(9), {}, {}, {}) >>

GenHostTables ==
    { a \o b \o c \o d \o e \o f :
        a \in Opt(HostLeaf1), b \in Opt(GenSgxRows), c \in Opt(GenTopologyRows),
        d \in Opt(GenKvmRows), e \in Opt(GenHypervRangeRows),
        f \in Opt(GenExtendedRows) }

NoTopology == << >>
GenTopologies == {NoTopology, <<1, 1, 1>>, <<2, 3, 2>>, <<2, 16, 16>>}

GenSgxSections ==
    { [some |-> FALSE, sections |-> << >>],
      [some |-> TRUE, sections |-> << >>],
      [some |-> TRUE, sections |-> << SgxEpcSection({5, 12, 33}, {12, 20}) >>],
      [some |-> TRUE, sections |-> << SgxEpcSection({5, 12, 33}, {12, 20}),
                                      SgxEpcSection({31, 40}, {3, 16, 32}) >>] }

GenPhysBits == {36, 46}

GenNotCalled == [status |-> "none", cpuid |-> << >>]

GenInit ==
    /\ host_cpuid \in GenHostTables
    /\ gen_args \in [topology : GenTopologies, sgx_epc_sections : GenSgxSections,
                     kvm_hyperv : BOOLEAN]
    /\ gen_out = GenNotCalled

GenIdle ==
    /\ host_cpuid = << >>
    /\ gen_args = << >>
    /\ gen_out = GenNotCalled

\* generate_common_cpuid(hypervisor, topology, sgx_epc_sections, phys_bits,
\* kvm_hyperv): hypervisor.get_cpuid() fails or reports host_cpuid.
GenerateCommonCpuid ==
    /\ gen_out.status = "none"
    /\ \E get_cpuid_ok \in BOOLEAN, phys_bits \in GenPhysBits,
          host_has_l2 \in BOOLEAN, checks \in BOOLEAN :
          gen_out' =
              IF ~get_cpuid_ok
              THEN [status |-> "CpuidGetSupported", cpuid |-> << >>]
              ELSE generate_common_cpuid(host_cpuid, gen_args.topology,
                                         gen_args.sgx_epc_sections, phys_bits,
                                         gen_args.kvm_hyperv, host_has_l2,
                                         {0, 1}, checks)
    /\ UNCHANGED <<host_cpuid, gen_args>>
    /\ UNCHANGED notGen

GenNext == GenerateCommonCpuid

---------------------------------------------------------------------------
(* The guest-physical layout.                                              *)
(* layout.rs is not among the sources, and its addresses (up to 4 GiB) do  *)
(* not fit TLC's integers: the constants below are stand-ins in an         *)
(* abstract address unit that keep the order and the adjacency of the real *)
(* layout: start-info < module list < memory map < EBDA < high RAM <       *)
(* reserved gap (devices, then PCI MMCONFIG) < 64-bit RAM.                 *)

PVH_INFO_START == 2
MODLIST_START == 4
MEMMAP_START == 6
EBDA_START == 20
HIGH_RAM_START == 22
MEM_32BIT_RESERVED_START == 28
MEM_32BIT_DEVICES_SIZE == 3
MEM_32BIT_RESERVED_SIZE == 5
PCI_MMCONFIG_START == 31
PCI_MMCONFIG_SIZE == 2
RAM_64BIT_START == 34
EBDA_POINTER == 1
SMBIOS_START == 21

\* mem::size_of of the three boot records, in the same unit.
SizeOfStartInfo == 2
SizeOfModlistEntry == 1
SizeOfMemmapEntry == 2

E820_RAM == 1
E820_RESERVED == 2
XEN_HVM_START_MAGIC_VALUE == 862897528

\* The largest RAM size requested.
MaxMemSize == 38

---------------------------------------------------------------------------
(* arch_memory_regions *)

Region(start, size, type) == [start |-> start, size |-> size, type |-> type]

\* The split with < for <=: a size equal to the gap start is split in two.
arch_memory_regions_strict(size) ==
    LET reserved_memory_gap_start == MEM_32BIT_RESERVED_START + MEM_32BIT_DEVICES_SIZE
        ram == IF size < MEM_32BIT_RESERVED_START
               THEN << Region(0, size, "Ram") >>
               ELSE << Region(0, MEM_32BIT_RESERVED_START, "Ram"),
                       Region(RAM_64BIT_START, size - MEM_32BIT_RESERVED_START, "Ram") >>
    IN ram \o << Region(MEM_32BIT_RESERVED_START, MEM_32BIT_DEVICES_SIZE, "SubRegion"),
                 Region(reserved_memory_gap_start,
                        MEM_32BIT_RESERVED_SIZE - MEM_32BIT_DEVICES_SIZE, "Reserved") >>

\* The split with the remainder taken from the end of the gap.
arch_memory_regions_short(size) ==
    LET reserved_memory_gap_start == MEM_32BIT_RESERVED_START + MEM_32BIT_DEVICES_SIZE
        ram == IF size <= MEM_32BIT_RESERVED_START
               THEN << Region(0, size, "Ram") >>
               ELSE << Region(0, MEM_32BIT_RESERVED_START, "Ram"),
                       Region(RAM_64BIT_START,
                              size - (MEM_32BIT_RESERVED_START + MEM_32BIT_RESERVED_SIZE),
                              "Ram") >>
    IN ram \o << Region(MEM_32BIT_RESERVED_START, MEM_32BIT_DEVICES_SIZE, "SubRegion"),
                 Region(reserved_memory_gap_start,
                        MEM_32BIT_RESERVED_SIZE - MEM_32BIT_DEVICES_SIZE, "Reserved") >>

\* arch_memory_regions
arch_memory_regions(size) ==
    LET reserved_memory_gap_start == MEM_32BIT_RESERVED_START + MEM_32BIT_DEVICES_SIZE
        ram == IF size <= MEM_32BIT_RESERVED_START
               THEN << Region(0, size, "Ram") >>
               ELSE << Region(0, MEM_32BIT_RESERVED_START, "Ram"),
                       Region(RAM_64BIT_START, size - MEM_32BIT_RESERVED_START, "Ram") >>
    IN ram \o << Region(MEM_32BIT_RESERVED_START, MEM_32BIT_DEVICES_SIZE, "SubRegion"),
                 Region(reserved_memory_gap_start,
                        MEM_32BIT_RESERVED_SIZE - MEM_32BIT_DEVICES_SIZE, "Reserved") >>

---------------------------------------------------------------------------
(* Guest memory (vm_memory::GuestMemoryMmap): its RAM ranges and the       *)
(* objects written into it, by address.                                    *)

\* GuestMemoryMmap::from_ranges on the RAM regions of a plan.
GuestMemoryFromRegions(plan) ==
    [ranges |-> {[start |-> plan[k].start, size |-> plan[k].size] :
                    k \in {j \in 1..Len(plan) : plan[j].type = "Ram"}},
     objs |-> << >>]

\* An address a range of the memory covers.
AddressInRange(mem, addr) ==
    \E r \in mem.ranges : r.start <= addr /\ addr < r.start + r.size

\* GuestMemory::last_addr
last_addr(mem) ==
    LET ends == {r.start + r.size - 1 : r \in mem.ranges}
    IN CHOOSE m \in ends : \A x \in ends : x <= m

\* GuestMemory::checked_offset(base, offset) is Some: base + offset is an
\* address of the memory.
checked_offset_is_some(mem, base, offset) == AddressInRange(mem, base + offset)

\* write_obj succeeds: every unit of the object lies in the memory.
WriteFits(mem, addr, size) ==
    \A a \in addr..(addr + size - 1) : AddressInRange(mem, a)

\* The memory after a successful write_obj(obj, addr).
WriteObj(mem, obj, addr) ==
    [mem EXCEPT !.objs = [a \in (DOMAIN mem.objs) \cup {addr} |->
                              IF a = addr THEN obj ELSE mem.objs[a]]]

---------------------------------------------------------------------------
(* configure_pvh *)

hvm_memmap_table_entry(addr, size, mem_type) ==
    [kind |-> "memmap", addr |-> addr, size |-> size, type_ |-> mem_type,
     reserved |-> 0]

\* add_memmap_entry putting the record in front.
add_memmap_entry_in_front(memmap, addr, size, mem_type) ==
    << hvm_memmap_table_entry(addr, size, mem_type) >> \o memmap

\* add_memmap_entry
add_memmap_entry(memmap, addr, size, mem_type) ==
    Append(memmap, hvm_memmap_table_entry(addr, size, mem_type))

hvm_modlist_entry(paddr, size) ==
    [kind |-> "modlist", paddr |-> paddr, size |-> size]

\* hvm_start_info::default() with the five fields set at the top of
\* configure_pvh and rsdp_paddr when an RSDP address is given.
InitialStartInfo(cmdline_addr, rsdp_addr) ==
    [kind |-> "start_info", magic |-> XEN_HVM_START_MAGIC_VALUE, version |-> 1,
     nr_modules |-> 0, modlist_paddr |-> 0, cmdline_paddr |-> cmdline_addr,
     rsdp_paddr |-> IF rsdp_addr = None THEN 0 ELSE rsdp_addr,
     memmap_paddr |-> MEMMAP_START, memmap_entries |-> 0]

\* The memory map with >= for > in the test on RAM_64BIT_START.
PvhMemmapFromOrigin(mem, sgx_epc_region) ==
    LET mem_end == last_addr(mem)
        m1 == add_memmap_entry(<< >>, 0, EBDA_START, E820_RAM)
        m2 == IF mem_end < MEM_32BIT_RESERVED_START
              THEN add_memmap_entry(m1, HIGH_RAM_START,
                                    (mem_end - HIGH_RAM_START) + 1, E820_RAM)
              ELSE LET m == add_memmap_entry(m1, HIGH_RAM_START,
                                MEM_32BIT_RESERVED_START - HIGH_RAM_START, E820_RAM)
                   IN IF mem_end >= RAM_64BIT_START
                      THEN add_memmap_entry(m, RAM_64BIT_START,
                                            (mem_end - RAM_64BIT_START) + 1, E820_RAM)
                      ELSE m
        m3 == add_memmap_entry(m2, PCI_MMCONFIG_START, PCI_MMCONFIG_SIZE, E820_RESERVED)
    IN IF sgx_epc_region.some
       THEN add_memmap_entry(m3, sgx_epc_region.start, sgx_epc_region.size,
                             E820_RESERVED)
       ELSE m3

\* The memory map with the high-RAM record always run up to the last
\* address, whether or not the memory reaches the 32-bit reserved gap.
PvhMemmapUnclipped(mem, sgx_epc_region) ==
    LET mem_end == last_addr(mem)
        m1 == add_memmap_entry(<< >>, 0, EBDA_START, E820_RAM)
        m2 == add_memmap_entry(m1, HIGH_RAM_START,
                               (mem_end - HIGH_RAM_START) + 1, E820_RAM)
        m3 == add_memmap_entry(m2, PCI_MMCONFIG_START, PCI_MMCONFIG_SIZE, E820_RESERVED)
    IN IF sgx_epc_region.some
       THEN add_memmap_entry(m3, sgx_epc_region.start, sgx_epc_region.size,
                             E820_RESERVED)
       ELSE m3

\* The memory map configure_pvh builds (lines 911-956).  A u64 is kept as
\* its value, so a wrapped difference shows as a number below 1.
PvhMemmap(mem, sgx_epc_region) ==
    LET mem_end == last_addr(mem)
        m1 == add_memmap_entry(<< >>, 0, EBDA_START, E820_RAM)
        m2 == IF mem_end < MEM_32BIT_RESERVED_START
              THEN add_memmap_entry(m1, HIGH_RAM_START,
                                    (mem_end - HIGH_RAM_START) + 1, E820_RAM)
              ELSE LET m == add_memmap_entry(m1, HIGH_RAM_START,
                                MEM_32BIT_RESERVED_START - HIGH_RAM_START, E820_RAM)
                   IN IF mem_end > RAM_64BIT_START
                      THEN add_memmap_entry(m, RAM_64BIT_START,
                                            (mem_end - RAM_64BIT_START) + 1, E820_RAM)
                      ELSE m
        m3 == add_memmap_entry(m2, PCI_MMCONFIG_START, PCI_MMCONFIG_SIZE, E820_RESERVED)
    IN IF sgx_epc_region.some
       THEN add_memmap_entry(m3, sgx_epc_region.start, sgx_epc_region.size,
                             E820_RESERVED)
       ELSE m3

\* mem_end.unchecked_offset_from(HIGH_RAM_START) underflows (line 922): a
\* build with overflow checks panics there, one without wraps.
PvhMemmapUnderflows(mem) ==
    /\ last_addr(mem) < MEM_32BIT_RESERVED_START
    /\ last_addr(mem) < HIGH_RAM_START

\* ---- the arguments ----
NoInitramfs == [some |-> FALSE, address |-> 0, size |-> 0]
Initramfs == {NoInitramfs, [some |-> TRUE, address |-> 24, size |-> 2]}
CmdlineAddr == {16}
\* No RSDP, the RSDP at its usual place, an RSDP above every RAM size tried.
RsdpAddrs == {None, EBDA_START, RAM_64BIT_START + MaxMemSize}
NoSgxEpcRegion == [some |-> FALSE, start |-> 0, size |-> 0]
SgxEpcRegions == {NoSgxEpcRegion, [some |-> TRUE, start |-> 44, size |-> 4]}

PvhIdle ==
    [pc |-> "idle", start_info |-> << >>, memmap |-> << >>, written |-> 0,
     memmap_start_addr |-> 0, result |-> "none"]

SysIdle == [pc |-> "idle", result |-> "none"]

BootInit ==
    /\ sys = SysIdle
    /\ mem_size \in 0..MaxMemSize
    /\ overflow_checks \in BOOLEAN
    /\ args \in [cmdline_addr : CmdlineAddr, initramfs : Initramfs,
                 rsdp_addr : RsdpAddrs, sgx_epc_region : SgxEpcRegions]
    /\ regions = << >>
    /\ guest_mem = [ranges |-> {}, objs |-> << >>]
    /\ pvh = PvhIdle

BootIdle ==
    /\ sys = SysIdle
    /\ mem_size = 0
    /\ overflow_checks = FALSE
    /\ args = << >>
    /\ regions = << >>
    /\ guest_mem = [ranges |-> {}, objs |-> << >>]
    /\ pvh = PvhIdle

\* arch_memory_regions(mem_size)
ArchMemoryRegions ==
    /\ regions = << >>
    /\ regions' = arch_memory_regions(mem_size)
    /\ UNCHANGED <<sys, mem_size, overflow_checks, args, guest_mem, pvh>>
    /\ UNCHANGED notBoot

\* The guest memory is built from the RAM regions of the plan (an empty
\* range cannot be mapped).
CreateGuestMemory ==
    /\ regions # << >>
    /\ guest_mem.ranges = {}
    /\ \A k \in 1..Len(regions) : regions[k].type = "Ram" => regions[k].size > 0
    /\ guest_mem' = GuestMemoryFromRegions(regions)
    /\ UNCHANGED <<sys, mem_size, overflow_checks, args, regions, pvh>>
    /\ UNCHANGED notBoot

\* configure_pvh, lines 877-907: the start-info header is staged and the
\* module-list entry of an initramfs is written.
ConfigurePvhModlist ==
    /\ guest_mem.ranges # {}
    /\ pvh.pc = "idle"
    /\ sys.pc \in {"idle", "pvh"}
    /\ LET start_info == InitialStartInfo(args.cmdline_addr, args.rsdp_addr)
           ramdisk_mod == hvm_modlist_entry(args.initramfs.address, args.initramfs.size)
       IN IF ~args.initramfs.some
          THEN /\ pvh' = [pvh EXCEPT !.pc = "memmap", !.start_info = start_info]
               /\ UNCHANGED guest_mem
          ELSE IF WriteFits(guest_mem, MODLIST_START, SizeOfModlistEntry)
          THEN /\ pvh' = [pvh EXCEPT !.pc = "memmap",
                              !.start_info = [start_info EXCEPT
                                                 !.nr_modules = @ + 1,
                                                 !.modlist_paddr = MODLIST_START]]
               /\ guest_mem' = WriteObj(guest_mem, ramdisk_mod, MODLIST_START)
          ELSE /\ pvh' = [pvh EXCEPT !.pc = "returned", !.result = "ModlistSetup",
                                     !.start_info = start_info]
               /\ UNCHANGED guest_mem
    /\ UNCHANGED <<sys, mem_size, overflow_checks, args, regions>>
    /\ UNCHANGED notBoot

\* configure_pvh, lines 909-969: the memory map is built, its length goes
\* into the header, and the table is bounds-checked.
ConfigurePvhMemmap ==
    /\ pvh.pc = "memmap"
    /\ IF PvhMemmapUnderflows(guest_mem) /\ overflow_checks
       THEN pvh' = [pvh EXCEPT !.pc = "panicked", !.result = "panic"]
       ELSE LET memmap == PvhMemmap(guest_mem, args.sgx_epc_region)
                start_info == [pvh.start_info EXCEPT !.memmap_entries = Len(memmap)]
            IN IF checked_offset_is_some(guest_mem, MEMMAP_START,
                                         SizeOfMemmapEntry * start_info.memmap_entries)
               THEN pvh' = [pvh EXCEPT !.pc = "write_memmap", !.memmap = memmap,
                                       !.start_info = start_info,
                                       !.memmap_start_addr = MEMMAP_START]
               ELSE pvh' = [pvh EXCEPT !.pc = "returned", !.memmap = memmap,
                                       !.start_info = start_info,
                                       !.result = "MemmapTablePastRamEnd"]
    /\ UNCHANGED <<sys, mem_size, overflow_checks, args, regions, guest_mem>>
    /\ UNCHANGED notBoot

\* The write loop without the advance of the address.
MemmapNextAddrStuck(addr) == addr

\* memmap_start_addr.unchecked_add(mem::size_of::<hvm_memmap_table_entry>())
MemmapNextAddr(addr) == addr + SizeOfMemmapEntry

\* configure_pvh, lines 973-981: one round of the loop that writes the
\* memory-map entries.
ConfigurePvhWriteEntry ==
    /\ pvh.pc = "write_memmap"
    /\ pvh.written < Len(pvh.memmap)
    /\ IF WriteFits(guest_mem, pvh.memmap_start_addr, SizeOfMemmapEntry)
       THEN /\ guest_mem' = WriteObj(guest_mem, pvh.memmap[pvh.written + 1],
                                     pvh.memmap_start_addr)
            /\ pvh' = [pvh EXCEPT
                          !.written = @ + 1,
                          !.memmap_start_addr = MemmapNextAddr(@),
                          !.pc = IF pvh.written + 1 = Len(pvh.memmap)
                                 THEN "start_info" ELSE @]
       ELSE /\ pvh' = [pvh EXCEPT !.pc = "returned", !.result = "MemmapTableSetup"]
            /\ UNCHANGED guest_mem
    /\ UNCHANGED <<sys, mem_size, overflow_checks, args, regions>>
    /\ UNCHANGED notBoot

\* configure_pvh, lines 986-997: the header is bounds-checked and written.
ConfigurePvhStartInfo ==
    /\ pvh.pc = "start_info"
    /\ IF ~checked_offset_is_some(guest_mem, PVH_INFO_START, SizeOfStartInfo)
       THEN /\ pvh' = [pvh EXCEPT !.pc = "returned", !.result = "StartInfoPastRamEnd"]
            /\ UNCHANGED guest_mem
       ELSE IF WriteFits(guest_mem, PVH_INFO_START, SizeOfStartInfo)
       THEN /\ guest_mem' = WriteObj(guest_mem, pvh.start_info, PVH_INFO_START)
            /\ pvh' = [pvh EXCEPT !.pc = "returned", !.result = "Ok"]
       ELSE /\ pvh' = [pvh EXCEPT !.pc = "returned", !.result = "StartInfoSetup"]
            /\ UNCHANGED guest_mem
    /\ UNCHANGED <<sys, mem_size, overflow_checks, args, regions>>
    /\ UNCHANGED notBoot

---------------------------------------------------------------------------
(* add_memmap_entry called on a list of its own, as the unit test does *)

\* The longest sequence of calls.
MaxMemmapCalls == 3

\* The arguments of the unit test, and each of them varied.
MemmapAddrs == {0, 65536}
MemmapSizes == {4096, 40960}
MemmapTypes == {E820_RAM, E820_RESERVED}

\* let mut memmap = Vec::new();
MemmapInit ==
    /\ memmap_vec = << >>
    /\ memmap_calls = << >>

MemmapIdle ==
    /\ memmap_vec = << >>
    /\ memmap_calls = << >>

\* add_memmap_entry(&mut memmap, addr, size, mem_type)
AddMemmapEntry ==
    /\ Len(memmap_calls) < MaxMemmapCalls
    /\ \E addr \in MemmapAddrs, size \in MemmapSizes, mem_type \in MemmapTypes :
          /\ memmap_vec' = add_memmap_entry(memmap_vec, addr, size, mem_type)
          /\ memmap_calls' = Append(memmap_calls, <<addr, size, mem_type>>)
    /\ UNCHANGED notMemmap

---------------------------------------------------------------------------
(* configure_system *)

\* configure_system, lines 842-844: the EBDA pointer is written.
ConfigureSystemEbda ==
    /\ guest_mem.ranges # {}
    /\ sys.pc = "idle"
    /\ pvh.pc = "idle"
    /\ IF WriteFits(guest_mem, EBDA_POINTER, 1)
       THEN /\ guest_mem' = WriteObj(guest_mem, [kind |-> "ebda_pointer"], EBDA_POINTER)
            /\ sys' = [sys EXCEPT !.pc = "smbios"]
       ELSE /\ sys' = [sys EXCEPT !.pc = "returned", !.result = "EbdaSetup"]
            /\ UNCHANGED guest_mem
    /\ UNCHANGED <<mem_size, overflow_checks, args, regions, pvh>>
    /\ UNCHANGED notBoot

\* configure_system, lines 846-847: smbios::setup_smbios succeeds or fails;
\* it fails when SMBIOS_START is no address of the memory.  What it writes
\* lies outside the boot records and is not kept.
ConfigureSystemSmbios ==
    /\ sys.pc = "smbios"
    /\ \E ok \in BOOLEAN :
          /\ ok => AddressInRange(guest_mem, SMBIOS_START)
          /\ sys' = IF ok THEN [sys EXCEPT !.pc = "mptable"]
                    ELSE [sys EXCEPT !.pc = "returned", !.result = "SmbiosSetup"]
    /\ UNCHANGED <<mem_size, overflow_checks, args, regions, guest_mem, pvh>>
    /\ UNCHANGED notBoot

\* configure_system, lines 849-852: mptable::setup_mptable succeeds or fails.
ConfigureSystemMpTable ==
    /\ sys.pc = "mptable"
    /\ \E ok \in BOOLEAN :
          sys' = IF ok THEN [sys EXCEPT !.pc = "rsdp"]
                 ELSE [sys EXCEPT !.pc = "returned", !.result = "MpTableSetup"]
    /\ UNCHANGED <<mem_size, overflow_checks, args, regions, guest_mem, pvh>>
    /\ UNCHANGED notBoot

\* configure_system without the RSDP check.
RsdpCheckSkipped(mem, rsdp_addr) == FALSE

\* if let Some(rsdp_addr) = rsdp_addr { if rsdp_addr.0 > last_addr().0 ..
RsdpIsPastRam(mem, rsdp_addr) ==
    rsdp_addr # None /\ rsdp_addr > last_addr(mem)

\* configure_system, lines 854-867: the RSDP check, then the call of
\* configure_pvh.
ConfigureSystemRsdp ==
    /\ sys.pc = "rsdp"
    /\ sys' = IF RsdpIsPastRam(guest_mem, args.rsdp_addr)
              THEN [sys EXCEPT !.pc = "returned", !.result = "RsdpPastRamEnd"]
              ELSE [sys EXCEPT !.pc = "pvh"]
    /\ UNCHANGED <<mem_size, overflow_checks, args, regions, guest_mem, pvh>>
    /\ UNCHANGED notBoot

\* configure_system returns what configure_pvh returned (a panic unwinds).
ConfigureSystemReturn ==
    /\ sys.pc = "pvh"
    /\ pvh.pc \in {"returned", "panicked"}
    /\ sys' = [sys EXCEPT !.pc = pvh.pc, !.result = pvh.result]
    /\ UNCHANGED <<mem_size, overflow_checks, args, regions, guest_mem, pvh>>
    /\ UNCHANGED notBoot

---------------------------------------------------------------------------
(* initramfs_load_addr *)

\* The value of a word given as its set bits.
RECURSIVE WordValue(_)
WordValue(w) ==
    IF w = {} THEN 0
    ELSE LET b == CHOOSE x \in w : TRUE IN 2^b + WordValue(w \ {b})

\* GuestMemory::find_region(addr): the ranges holding the address (at most
\* one, as the ranges of a guest memory do not overlap).
find_region(mem, addr) ==
    {r \in mem.ranges : r.start <= addr /\ addr < r.start + r.size}

InitramfsErr == [status |-> "InitramfsAddress", addr |-> 0]

\* initramfs_load_addr without the mask of the low bits.
initramfs_load_addr_unaligned(mem, initramfs_size, pagesize) ==
    IF find_region(mem, 0) = {} THEN InitramfsErr
    ELSE LET first_region == CHOOSE r \in find_region(mem, 0) : TRUE
             lowmem_size == first_region.size
         IN IF lowmem_size < initramfs_size THEN InitramfsErr
            ELSE [status |-> "Ok", addr |-> lowmem_size - initramfs_size]

\* initramfs_load_addr; pagesize is what crate::pagesize() returns.
initramfs_load_addr(mem, initramfs_size, pagesize) ==
    IF find_region(mem, 0) = {} THEN InitramfsErr
    ELSE LET first_region == CHOOSE r \in find_region(mem, 0) : TRUE
             lowmem_size == first_region.size
         IN IF lowmem_size < initramfs_size THEN InitramfsErr
            ELSE [status |-> "Ok",
                  addr |-> WordValue(Bits(lowmem_size - initramfs_size)
                                        \ Bits(pagesize - 1))]

\* The guest memories passed: the memory of every RAM plan, and memories
\* with no range at address 0.
InitramfsMemories ==
    {GuestMemoryFromRegions(arch_memory_regions(size)) : size \in 1..MaxMemSize}
    \cup {[ranges |-> {[start |-> RAM_64BIT_START, size |-> 4]}, objs |-> << >>],
          [ranges |-> {[start |-> HIGH_RAM_START, size |-> 6],
                       [start |-> RAM_64BIT_START, size |-> 4]}, objs |-> << >>]}

\* The page size of the host, in the unit of the layout: a power of two.
PageSizes == {4, 8}

\* Sizes from nothing to more than the largest lowest region.
InitramfsSizes == 0..(MEM_32BIT_RESERVED_START + 1)

InitramfsNotCalled == [called |-> FALSE, initramfs_size |-> 0, ret |-> InitramfsErr]

InitramfsInit ==
    /\ initramfs_env \in [guest_mem : InitramfsMemories, pagesize : PageSizes]
    /\ initramfs_ret = InitramfsNotCalled

InitramfsIdle ==
    /\ initramfs_env = << >>
    /\ initramfs_ret = InitramfsNotCalled

\* initramfs_load_addr(&guest_mem, initramfs_size)
InitramfsLoadAddr ==
    /\ \E initramfs_size \in InitramfsSizes :
          initramfs_ret' =
              [called |-> TRUE, initramfs_size |-> initramfs_size,
               ret |-> initramfs_load_addr(initramfs_env.guest_mem, initramfs_size,
                                           initramfs_env.pagesize)]
    /\ UNCHANGED initramfs_env
    /\ UNCHANGED notInitramfs

---------------------------------------------------------------------------
(* Specifications: one per part of the module; the parts share no state. *)

SpecCompatInit ==
    CompatInit /\ CpuidIdle /\ VcpuIdle /\ BootIdle /\ GenIdle /\ MemmapIdle /\ InitramfsIdle
SpecCompatNext == CompatNext
SpecCompat == SpecCompatInit /\ [][SpecCompatNext]_vars

SpecCpuidInit ==
    CpuidInit /\ CompatIdle /\ VcpuIdle /\ BootIdle /\ GenIdle /\ MemmapIdle /\ InitramfsIdle
SpecCpuidNext == CpuidNext
SpecCpuid == SpecCpuidInit /\ [][SpecCpuidNext]_vars

SpecVcpuInit ==
    VcpuInit /\ CompatIdle /\ CpuidIdle /\ BootIdle /\ GenIdle /\ MemmapIdle /\ InitramfsIdle
SpecVcpuNext ==
    \E i \in VcpuIds :
        \/ ConfigureVcpuPatch(i)
        \/ SetCpuid2(i)
        \/ EnableHypervSynic(i)
        \/ SetupMsrs(i)
        \/ SetupRegs(i)
        \/ SetupFpu(i)
        \/ SetupSregs(i)
        \/ SetLint(i)
SpecVcpu == SpecVcpuInit /\ [][SpecVcpuNext]_vars

SpecBootInit ==
    BootInit /\ CompatIdle /\ CpuidIdle /\ VcpuIdle /\ GenIdle /\ MemmapIdle /\ InitramfsIdle
SpecBootNext ==
    \/ ArchMemoryRegions
    \/ CreateGuestMemory
    \/ ConfigureSystemEbda
    \/ ConfigureSystemSmbios
    \/ ConfigureSystemMpTable
    \/ ConfigureSystemRsdp
    \/ ConfigureSystemReturn
    \/ ConfigurePvhModlist
    \/ ConfigurePvhMemmap
    \/ ConfigurePvhWriteEntry
    \/ ConfigurePvhStartInfo
SpecBoot == SpecBootInit /\ [][SpecBootNext]_vars

SpecGenInit ==
    GenInit /\ CompatIdle /\ CpuidIdle /\ VcpuIdle /\ BootIdle /\ MemmapIdle /\ InitramfsIdle
SpecGenNext == GenNext
SpecGen == SpecGenInit /\ [][SpecGenNext]_vars

SpecMemmapInit ==
    MemmapInit /\ CompatIdle /\ CpuidIdle /\ VcpuIdle /\ BootIdle /\ GenIdle /\ InitramfsIdle
SpecMemmapNext == AddMemmapEntry
SpecMemmap == SpecMemmapInit /\ [][SpecMemmapNext]_vars

SpecInitramfsInit ==
    InitramfsInit /\ CompatIdle /\ CpuidIdle /\ VcpuIdle /\ BootIdle /\ GenIdle /\ MemmapIdle
SpecInitramfsNext == InitramfsLoadAddr
SpecInitramfs == SpecInitramfsInit /\ [][SpecInitramfsNext]_vars

---------------------------------------------------------------------------
(* C2, C3: the compatibility check *)

\* The value a rule reads from a table: the named register of the first
\* entry with the rule's leaf and sub-leaf, 0 when the table has none.
RuleValue(table, rule) ==
    LET hits == {k \in 1..Len(table) :
                    table[k].function = rule.function /\ table[k].index = rule.index}
    IN IF hits = {} THEN {}
       ELSE RegVal(table[CHOOSE k \in hits : \A j \in hits : k <= j], rule.feature_reg)

\* A rule is violated by (src, dest), stated from its kind's meaning.
RuleViolated(rule, src, dest) ==
    LET s == RuleValue(src, rule)
        d == RuleValue(dest, rule)
    IN CASE rule.compatible_check = "BitwiseSubset" -> \E b \in s : b \notin d
         [] rule.compatible_check = "Equal" -> s # d
         [] rule.compatible_check = "NumNotGreater" -> ~LeqWord(s, d)

ViolatedRules(src, dest) ==
    {i \in 1..Len(checked_feature_entry_list) :
        RuleViolated(checked_feature_entry_list[i], src, dest)}

RuleKey(r) == <<r.function, r.index, r.feature_reg>>

\* C2: the check fails with CpuidCheckCompatibility iff some rule is violated,
\* and the rules it reports are exactly the violated rules, each once and in
\* rule order (nothing is skipped after the first failure).
C2_ReportsExactlyViolatedRules ==
    compat.called =>
        LET bad == ViolatedRules(src_vm_cpuid, dest_vm_cpuid)
        IN /\ (compat.result = "CpuidCheckCompatibility") <=> (bad # {})
           /\ (compat.result = "Ok") <=> (bad = {})
           /\ Len(compat.log) = Cardinality(bad)
           /\ {RuleKey(compat.log[k]) : k \in 1..Len(compat.log)}
                = {RuleKey(checked_feature_entry_list[i]) : i \in bad}
           /\ \A k \in 1..Len(compat.log) :
                 /\ compat.log[k].src
                      = RuleValue(src_vm_cpuid, compat.log[k])
                 /\ compat.log[k].dest
                      = RuleValue(dest_vm_cpuid, compat.log[k])

\* A run where the destination lacks a bit the source has in a
\* bitwise-subset register, and a second rule is violated as well.
C2_Witness ==
    /\ compat.called
    /\ compat.result = "CpuidCheckCompatibility"
    /\ Len(compat.log) >= 2
    /\ \E k \in 1..Len(compat.log) :
          /\ compat.log[k].compatible_check = "BitwiseSubset"
          /\ compat.log[k].function = LEAF_7
          /\ compat.log[k].feature_reg = "EBX"
          /\ 30 \in compat.log[k].src /\ 30 \notin compat.log[k].dest

\* C3: a table checked against itself is compatible.
C3_SelfCompatible ==
    (compat.called /\ src_vm_cpuid = dest_vm_cpuid) => compat.result = "Ok"

\* A non-empty table with a not-greater and an equal rule in play, checked
\* against itself.
C3_Witness ==
    /\ compat.called
    /\ src_vm_cpuid = dest_vm_cpuid
    /\ Len(src_vm_cpuid) = 2
    /\ \E k \in 1..2 : src_vm_cpuid[k].function = LEAF_4000_0000
    /\ \E k \in 1..2 : src_vm_cpuid[k].function = LEAF_7

---------------------------------------------------------------------------
(* C10: patch_cpuid *)

\* Every bit of word a is a bit of word b.
BitsKept(a, b) == \A bit \in a : bit \in b

\* C10: patch_cpuid never clears a bit (flags and the four registers of every
\* entry keep every bit they had; no entry is added, dropped or re-keyed),
\* and applying the same patch list a second time changes nothing.
C10_PatchNeverClearsAndIsIdempotent ==
    call.op = "patch_cpuid" =>
        /\ Len(cpuid) = Len(cpuid_prev)
        /\ \A i \in 1..Len(cpuid) :
              /\ cpuid[i].function = cpuid_prev[i].function
              /\ cpuid[i].index = cpuid_prev[i].index
              /\ BitsKept(cpuid_prev[i].flags, cpuid[i].flags)
              /\ BitsKept(cpuid_prev[i].eax, cpuid[i].eax)
              /\ BitsKept(cpuid_prev[i].ebx, cpuid[i].ebx)
              /\ BitsKept(cpuid_prev[i].ecx, cpuid[i].ecx)
              /\ BitsKept(cpuid_prev[i].edx, cpuid[i].edx)
        /\ (call.n = 2 => cpuid = cpuid_prev)

\* Two patches on the base feature leaf, applied twice: the bits they set are
\* there beside the bit the host reported.
C10_Witness ==
    /\ call.op = "patch_cpuid"
    /\ call.n = 2
    /\ Len(call.patches) = 2
    /\ call.patches[1].ecx_bit = 24
    /\ call.patches[2].ecx_bit = 31
    /\ \E i \in 1..Len(cpuid) :
          cpuid[i].function = LEAF_1 /\ cpuid[i].ecx = {0, 24, 31}

---------------------------------------------------------------------------
(* C6, C7: update_cpuid_sgx *)

\* The rows of leaf 0x12 with sub-leaf i.
SgxRows(i) ==
    {k \in 1..Len(cpuid) : cpuid[k].function = LEAF_12 /\ cpuid[k].index = i}

Populated(entry) ==
    entry.eax # {} \/ entry.ebx # {} \/ entry.ecx # {} \/ entry.edx # {}

\* Row k encodes the section: EAX = low word of start, 4 KiB-masked, bit 0
\* set; EBX = high word of start; ECX = low word of size, 4 KiB-masked, with
\* the host's four property bits; EDX = high word of size.
EncodesSection(entry, section, leaf_ecx) ==
    \A b \in 0..31 :
        /\ (b \in entry.eax) <=> (b = 0 \/ (b >= 12 /\ b \in section.start))
        /\ (b \in entry.ebx) <=> ((b + 32) \in section.start)
        /\ (b \in entry.ecx) <=> ((b >= 12 /\ b \in section.size)
                                     \/ (b <= 3 /\ b \in leaf_ecx))
        /\ (b \in entry.edx) <=> ((b + 32) \in section.size)

\* C6: after a successful update_cpuid_sgx over N >= 1 sections the leaf-0x12
\* sub-leaves from 2 on are exactly: one row per section i at sub-leaf i + 1
\* (1-based i) encoding it, all populated, and one all-zero row at N + 2.
C6_SgxSubleaves ==
    (call.op = "update_cpuid_sgx" /\ call.result = "Ok") =>
        LET n == Len(call.epc_sections)
            epc == {k \in 1..Len(cpuid) :
                      cpuid[k].function = LEAF_12 /\ cpuid[k].index >= 2}
            populated == {k \in epc : Populated(cpuid[k])}
        IN /\ n >= 1
           /\ Cardinality(populated) = n
           /\ \A i \in 1..n :
                 /\ Cardinality(SgxRows(i + 1)) = 1
                 /\ \A k \in SgxRows(i + 1) :
                       /\ k \in populated
                       /\ EncodesSection(cpuid[k], call.epc_sections[i], call.leaf_ecx)
           /\ Cardinality(SgxRows(n + 2)) = 1
           /\ \A k \in SgxRows(n + 2) : ~Populated(cpuid[k])
           /\ Cardinality(epc) = n + 1

\* Two sections on a table that reports leaf 0x12 sub-leaves 0 and 1, with a
\* start above 4 GiB and host property bits.
C6_Witness ==
    /\ call.op = "update_cpuid_sgx"
    /\ call.result = "Ok"
    /\ Len(call.epc_sections) = 2
    /\ call.leaf_ecx = {0, 1}
    /\ SgxRows(0) # {} /\ SgxRows(1) # {}
    /\ \E k \in SgxRows(2) : cpuid[k].ebx # {} /\ 0 \in cpuid[k].eax
    /\ SgxRows(4) # {}

\* Leaf 7 sub-leaf 0 has the bit set in the register, in the table the call
\* was given.
Leaf7Has(reg, bit) ==
    \E k \in 1..Len(cpuid_prev) :
        /\ cpuid_prev[k].function = LEAF_7
        /\ cpuid_prev[k].index = 0
        /\ bit \in RegVal(cpuid_prev[k], reg)

\* C7: update_cpuid_sgx returns NoSgxEpcSection for an empty list, else
\* MissingSgxFeature without leaf 7.0 EBX bit 2, else
\* MissingSgxLaunchControlFeature without leaf 7.0 ECX bit 30, else Ok; on
\* each error the table is as it was.
C7_SgxErrorsLeaveTable ==
    call.op = "update_cpuid_sgx" =>
        /\ call.result =
              (IF call.epc_sections = << >> THEN "NoSgxEpcSection"
               ELSE IF ~Leaf7Has("EBX", 2) THEN "MissingSgxFeature"
               ELSE IF ~Leaf7Has("ECX", 30) THEN "MissingSgxLaunchControlFeature"
               ELSE "Ok")
        /\ (call.result # "Ok" => cpuid = cpuid_prev)

\* A non-empty section list on a table with SGX but without SGX_LC.
C7_Witness ==
    /\ call.op = "update_cpuid_sgx"
    /\ call.result = "MissingSgxLaunchControlFeature"
    /\ Len(call.epc_sections) = 2
    /\ Leaf7Has("EBX", 2)
    /\ Len(cpuid) >= 3
    /\ cpuid = cpuid_prev

---------------------------------------------------------------------------
(* C4, C5: configure_vcpu *)

TopologyLeaf(entry) == entry.function = LEAF_B \/ entry.function = LEAF_1F

\* The table committed to vCPU i is the common table with EDX = i on every
\* row of leaves 0xb and 0x1f and nothing else changed.
CommittedIsCommonWithApicId(i) ==
    /\ Len(vcpus[i].vcpu_cpuid) = Len(common_cpuid)
    /\ \A k \in 1..Len(common_cpuid) :
          LET got == vcpus[i].vcpu_cpuid[k]
              was == common_cpuid[k]
          IN IF TopologyLeaf(was)
             THEN /\ got.edx = Bits(i)
                  /\ got.function = was.function /\ got.index = was.index
                  /\ got.flags = was.flags /\ got.eax = was.eax
                  /\ got.ebx = was.ebx /\ got.ecx = was.ecx
             ELSE got = was

\* C4: in every interleaving of the concurrent configure_vcpu calls, the
\* table committed to vCPU i is the common table with EDX = i on every row of
\* leaves 0xb and 0x1f, and no step changes the common table.
C4_PerVcpuApicIdNoSharedMutation ==
    /\ [](\A i \in VcpuIds : vcpus[i].committed => CommittedIsCommonWithApicId(i))
    /\ [][common_cpuid' = common_cpuid]_vars

\* vCPU 1 has committed its table while vCPU 0 has patched its clone and not
\* committed yet; the common table has both topology leaves.
C4_Witness ==
    /\ vcpus[1].committed
    /\ vcpus[0].pc = "set_cpuid2"
    /\ Len(common_cpuid) = 6
    /\ vcpus[1].vcpu_cpuid[6].function = LEAF_1F
    /\ vcpus[1].vcpu_cpuid[6].edx = {0}
    /\ vcpus[0].cpuid[6].edx = {}
    /\ common_cpuid[6].edx = {0, 1, 2}

\* The sub-steps in the order the claim gives, for the call's arguments.
ExpectedCalls ==
    << "set_cpuid2" >>
    \o (IF kvm_hyperv THEN << "enable_hyperv_synic" >> ELSE << >>)
    \o << "setup_msrs" >>
    \o (IF boot_setup = "EntryAddr"
        THEN << "setup_regs", "setup_fpu", "setup_sregs" >> ELSE << >>)
    \o << "set_lint" >>

\* The error variant the claim gives for each fallible sub-step.
ExpectedError ==
    [ SetSupportedCpusFailed |-> "set_cpuid2",
      MsrsConfiguration |-> "setup_msrs",
      RegsConfiguration |-> "setup_regs",
      FpuConfiguration |-> "setup_fpu",
      SregsConfiguration |-> "setup_sregs",
      LocalIntConfiguration |-> "set_lint" ]

IsPrefix(s, t) == Len(s) <= Len(t) /\ \A k \in 1..Len(s) : s[k] = t[k]

\* C5: the sub-steps a configure_vcpu call has invoked are always a prefix of
\* the stated order; it returns Ok only after all of them; when it has
\* returned an error, that error is the variant of the last sub-step invoked
\* (so nothing was invoked after the failing one).
C5_StepOrderAndErrors ==
    \A i \in VcpuIds :
        LET v == vcpus[i]
        IN /\ IsPrefix(v.calls, ExpectedCalls)
           /\ (v.result = "Ok" => v.calls = ExpectedCalls)
           /\ (v.result \in DOMAIN ExpectedError =>
                  /\ v.pc = "returned"
                  /\ Len(v.calls) >= 1
                  /\ v.calls[Len(v.calls)] = ExpectedError[v.result])
           /\ (v.pc = "returned" => v.result \in DOMAIN ExpectedError)
           /\ (v.pc = "done" <=> v.result = "Ok")

\* With kvm_hyperv and an entry address: one vCPU has failed in setup_fpu
\* after five sub-steps, the other has finished all seven.
C5_Witness ==
    /\ kvm_hyperv
    /\ boot_setup = "EntryAddr"
    /\ vcpus[0].result = "FpuConfiguration"
    /\ Len(vcpus[0].calls) = 5
    /\ vcpus[1].result = "Ok"
    /\ Len(vcpus[1].calls) = 7

---------------------------------------------------------------------------
(* Claims on arch_memory_regions and configure_pvh *)

PastEndErrors == {"MemmapTablePastRamEnd", "StartInfoPastRamEnd"}

\* The addresses holding a module-list entry, a memory-map entry or a
\* start-info header.
BootRecords ==
    {a \in DOMAIN guest_mem.objs :
        guest_mem.objs[a].kind \in {"modlist", "memmap", "start_info"}}

\* C1: when configure_pvh returns a past-end error (MemmapTablePastRamEnd or
\* StartInfoPastRamEnd) the guest memory is unchanged: no module-list entry,
\* no memory-map entry and no start-info header has been written, with or
\* without an initramfs.
C1_PastEndErrorLeavesMemoryUnchanged ==
    (pvh.pc = "returned" /\ pvh.result \in PastEndErrors) =>
        BootRecords = {}

FixedRegions ==
    << Region(MEM_32BIT_RESERVED_START, MEM_32BIT_DEVICES_SIZE, "SubRegion"),
       Region(MEM_32BIT_RESERVED_START + MEM_32BIT_DEVICES_SIZE,
              MEM_32BIT_RESERVED_SIZE - MEM_32BIT_DEVICES_SIZE, "Reserved") >>

\* C8: for a requested size <= MEM_32BIT_RESERVED_START, arch_memory_regions
\* returns exactly three descriptors in this order: the RAM region at 0 of the
\* requested size, the device sub-region, the reserved region.
C8_SmallSizeThreeRegions ==
    (regions # << >> /\ mem_size <= MEM_32BIT_RESERVED_START) =>
        regions = << Region(0, mem_size, "Ram") >> \o FixedRegions

C8_Witness ==
    /\ regions # << >>
    /\ mem_size = MEM_32BIT_RESERVED_START
    /\ Len(regions) = 3
    /\ regions[1].size = MEM_32BIT_RESERVED_START

\* C9: for a requested size > MEM_32BIT_RESERVED_START, arch_memory_regions
\* returns exactly four descriptors in this order: RAM [0,
\* MEM_32BIT_RESERVED_START), RAM from RAM_64BIT_START, the device sub-region,
\* the reserved region; and the two RAM sizes sum to the requested size.
C9_LargeSizeFourRegions ==
    (regions # << >> /\ mem_size > MEM_32BIT_RESERVED_START) =>
        /\ Len(regions) = 4
        /\ regions[1] = Region(0, MEM_32BIT_RESERVED_START, "Ram")
        /\ regions[2].start = RAM_64BIT_START
        /\ regions[2].type = "Ram"
        /\ SubSeq(regions, 3, 4) = FixedRegions
        /\ regions[1].size + regions[2].size = mem_size

C9_Witness ==
    /\ regions # << >>
    /\ mem_size > MEM_32BIT_RESERVED_START + 1
    /\ Len(regions) = 4
    /\ regions[2].size = mem_size - MEM_32BIT_RESERVED_START

---------------------------------------------------------------------------
(* Claims on set_cpuid_reg *)

\* The entries of a table the call's leaf and sub-leaf select.
SetRegMatches(table) ==
    {k \in 1..Len(table) :
        /\ table[k].function = call.function
        /\ (call.index = None \/ call.index = table[k].index)}

OtherRegs(reg) == CpuidReg \ {reg}

\* C11: set_cpuid_reg with no sub-leaf and value X on a table holding at
\* least one entry of the leaf sets the register to X on every entry of that
\* leaf and changes nothing else: the other three registers of those
\* entries, the entries of other leaves and the number of entries.
C11_BroadcastSetsEveryEntryOfLeaf ==
    (/\ call.op = "set_cpuid_reg"
     /\ call.index = None
     /\ \E k \in 1..Len(cpuid_prev) : cpuid_prev[k].function = call.function) =>
        /\ Len(cpuid) = Len(cpuid_prev)
        /\ \A k \in 1..Len(cpuid) :
              IF cpuid_prev[k].function = call.function
              THEN /\ RegVal(cpuid[k], call.reg) = call.value
                   /\ \A r \in OtherRegs(call.reg) :
                         RegVal(cpuid[k], r) = RegVal(cpuid_prev[k], r)
                   /\ cpuid[k].function = cpuid_prev[k].function
                   /\ cpuid[k].index = cpuid_prev[k].index
                   /\ cpuid[k].flags = cpuid_prev[k].flags
              ELSE cpuid[k] = cpuid_prev[k]

\* A broadcast over a leaf with two sub-leaves, both of which held another
\* value in the register.
C11_Witness ==
    /\ call.op = "set_cpuid_reg"
    /\ call.index = None
    /\ Cardinality(SetRegMatches(cpuid_prev)) >= 2
    /\ \A k \in SetRegMatches(cpuid_prev) :
          RegVal(cpuid_prev[k], call.reg) # call.value
    /\ \A k \in SetRegMatches(cpuid) : RegVal(cpuid[k], call.reg) = call.value

\* C18: set_cpuid_reg on a table with no matching entry: with a sub-leaf it
\* appends exactly one entry with that leaf and sub-leaf, the valid-index
\* flag, the named register equal to the value and the other registers 0;
\* with no sub-leaf the table is unchanged.  The earlier entries are
\* unchanged in both cases.
C18_NoMatchAppendsOrNoop ==
    (call.op = "set_cpuid_reg" /\ SetRegMatches(cpuid_prev) = {}) =>
        IF call.index # None
        THEN /\ Len(cpuid) = Len(cpuid_prev) + 1
             /\ SubSeq(cpuid, 1, Len(cpuid_prev)) = cpuid_prev
             /\ LET e == cpuid[Len(cpuid)]
                IN /\ e.function = call.function
                   /\ e.index = call.index
                   /\ e.flags = CPUID_FLAG_VALID_INDEX
                   /\ RegVal(e, call.reg) = call.value
                   /\ \A r \in OtherRegs(call.reg) : RegVal(e, r) = {}
        ELSE cpuid = cpuid_prev

\* Both cases: an entry appended to a table that holds other sub-leaves of
\* the leaf, or a broadcast into a table without the leaf.
C18_Witness ==
    /\ call.op = "set_cpuid_reg"
    /\ SetRegMatches(cpuid_prev) = {}
    /\ cpuid_prev # << >>
    /\ call.value # {}
    /\ \/ /\ call.index # None
          /\ \E k \in 1..Len(cpuid_prev) : cpuid_prev[k].function = call.function
          /\ Len(cpuid) = Len(cpuid_prev) + 1
       \/ /\ call.index = None
          /\ call.function = LEAF_B
          /\ cpuid = cpuid_prev

---------------------------------------------------------------------------
(* Claims on update_cpuid_topology *)

\* The table holds the sub-leaf with EAX = eax and ECX = ecx.
TopologyRow(table, function, index, eax, ecx) ==
    \E k \in 1..Len(table) :
        /\ table[k].function = function
        /\ table[k].index = index
        /\ table[k].eax = Bits(eax)
        /\ table[k].ecx = Bits(ecx)

\* The table holds no entry of the sub-leaf.
NoTopologyRow(table, function, index) ==
    \A k \in 1..Len(table) :
        ~(table[k].function = function /\ table[k].index = index)

ThreadWidth == CountWidth(call.topology[1])
CoreWidth == CountWidth(call.topology[2]) + ThreadWidth
DieWidth == CountWidth(call.topology[3]) + CoreWidth

TopologyDone == call.op = "update_cpuid_topology" /\ call.result = "Ok"

\* C15 as stated: leaf 0xb and leaf 0x1f both get EAX = thread width, ECX =
\* 1<<8 at sub-leaf 0 and EAX = core width, ECX = 2<<8 at sub-leaf 1; leaf
\* 0x1f alone gets sub-leaf 2 with EAX = die width, ECX = 5<<8.
C15_CoreWidthInBothLeaves ==
    TopologyDone =>
        /\ TopologyRow(cpuid, LEAF_B, 0, ThreadWidth, 256)
        /\ TopologyRow(cpuid, LEAF_B, 1, CoreWidth, 512)
        /\ TopologyRow(cpuid, LEAF_1F, 0, ThreadWidth, 256)
        /\ TopologyRow(cpuid, LEAF_1F, 1, CoreWidth, 512)
        /\ TopologyRow(cpuid, LEAF_1F, 2, DieWidth, 1280)
        /\ NoTopologyRow(cpuid, LEAF_B, 2)

\* C15, amended: sub-leaf 0 of both leaves gets EAX = thread width, ECX =
\* 1<<8; sub-leaf 1 gets ECX = 2<<8 with EAX = die width in leaf 0xb and EAX
\* = core width in leaf 0x1f; leaf 0x1f alone gets sub-leaf 2 with EAX = die
\* width, ECX = 5<<8.
C15_TopologyWidths ==
    TopologyDone =>
        /\ TopologyRow(cpuid, LEAF_B, 0, ThreadWidth, 256)
        /\ TopologyRow(cpuid, LEAF_B, 1, DieWidth, 512)
        /\ TopologyRow(cpuid, LEAF_1F, 0, ThreadWidth, 256)
        /\ TopologyRow(cpuid, LEAF_1F, 1, CoreWidth, 512)
        /\ TopologyRow(cpuid, LEAF_1F, 2, DieWidth, 1280)
        /\ NoTopologyRow(cpuid, LEAF_B, 2)

\* Three threads-of-two, cores and dies with distinct widths, on a table
\* that held leaf 0xb before and no leaf 0x1f.
C15_Witness ==
    /\ TopologyDone
    /\ call.topology = <<2, 3, 2>>
    /\ ThreadWidth = 1 /\ CoreWidth = 3 /\ DieWidth = 4
    /\ \E k \in 1..Len(cpuid_prev) : cpuid_prev[k].function = LEAF_B
    /\ TopologyRow(cpuid, LEAF_B, 1, 4, 512)
    /\ TopologyRow(cpuid, LEAF_1F, 1, 3, 512)

\* The table holds the sub-leaf with EBX = ebx.
TopologyEbx(table, function, index, ebx) ==
    \E k \in 1..Len(table) :
        /\ table[k].function = function
        /\ table[k].index = index
        /\ table[k].ebx = Bits(ebx)

ThreadCount == call.topology[1]
CoreThreadCount == call.topology[2] * call.topology[1]
PackageThreadCount == call.topology[3] * call.topology[2] * call.topology[1]

\* C22: for counts in 1..255, EBX holds the exact number of logical
\* processors, not its low 8 bits: the threads at sub-leaf 0 of both leaves,
\* cores * threads at leaf 0x1f sub-leaf 1, and dies * cores * threads at
\* leaf 0xb sub-leaf 1 and leaf 0x1f sub-leaf 2.
C22_ExactProcessorCounts ==
    TopologyDone =>
        /\ TopologyEbx(cpuid, LEAF_B, 0, ThreadCount)
        /\ TopologyEbx(cpuid, LEAF_1F, 0, ThreadCount)
        /\ TopologyEbx(cpuid, LEAF_1F, 1, CoreThreadCount)
        /\ TopologyEbx(cpuid, LEAF_B, 1, PackageThreadCount)
        /\ TopologyEbx(cpuid, LEAF_1F, 2, PackageThreadCount)

\* The same, for the counts whose products stay within 8 bits.
C22_ExactWhenProductsFit ==
    (TopologyDone /\ ~TopologyOverflows(call.topology[1], call.topology[2], call.topology[3]))
        => C22_ExactProcessorCounts

---------------------------------------------------------------------------
(* Claims on generate_common_cpuid *)

\* At most one entry per (leaf, sub-leaf) pair.
UniqueKeys(table) ==
    \A j, k \in 1..Len(table) :
        (table[j].function = table[k].function /\ table[j].index = table[k].index)
            => j = k

GenReturned == gen_out.status = "Ok"

\* C12: every table generate_common_cpuid returns holds at most one entry
\* per (leaf, sub-leaf) pair, for every host-reported table without
\* duplicates and every topology, SGX section list and kvm_hyperv.
C12_AtMostOneEntryPerLeafSubleaf ==
    (GenReturned /\ UniqueKeys(host_cpuid)) => UniqueKeys(gen_out.cpuid)

\* The entries of leaf 1, sub-leaf 0.
BaseFeatureEntries(table) ==
    {k \in 1..Len(table) : table[k].function = LEAF_1 /\ table[k].index = 0}

BaseFeatureBitsSet(entry) ==
    /\ TSC_DEADLINE_TIMER_ECX_BIT \in entry.ecx
    /\ HYPERVISOR_ECX_BIT \in entry.ecx
    /\ MTRR_EDX_BIT \in entry.edx

\* C16 as stated: in every table returned, leaf 1 sub-leaf 0 is present with
\* ECX bits 24 and 31 and EDX bit 12 set, whatever the host reported.
C16_BaseFeatureLeafAlwaysPresent ==
    GenReturned =>
        /\ BaseFeatureEntries(gen_out.cpuid) # {}
        /\ \A k \in BaseFeatureEntries(gen_out.cpuid) :
              BaseFeatureBitsSet(gen_out.cpuid[k])

\* C16, amended: every leaf 1 sub-leaf 0 entry of a returned table has ECX
\* bits 24 and 31 and EDX bit 12 set, and the returned table holds such an
\* entry exactly when the host-reported table does: the patch creates none.
C16_BaseFeatureBitsWherePresent ==
    GenReturned =>
        /\ \A k \in BaseFeatureEntries(gen_out.cpuid) :
              BaseFeatureBitsSet(gen_out.cpuid[k])
        /\ (BaseFeatureEntries(gen_out.cpuid) # {}) <=>
              (BaseFeatureEntries(host_cpuid) # {})

\* A host entry without the three bits comes back with them.
C16_Witness ==
    /\ GenReturned
    /\ \E k \in BaseFeatureEntries(host_cpuid) :
          /\ TSC_DEADLINE_TIMER_ECX_BIT \notin host_cpuid[k].ecx
          /\ HYPERVISOR_ECX_BIT \notin host_cpuid[k].ecx
    /\ \E k \in BaseFeatureEntries(gen_out.cpuid) :
          BaseFeatureBitsSet(gen_out.cpuid[k])

KvmFeatureEntries(table) ==
    {k \in 1..Len(table) : table[k].function = LEAF_4000_0001}

\* C17 as stated: in every table returned, for every kvm_hyperv, every entry
\* of leaf 0x4000_0001 has EAX bit 14 clear.
C17_AsyncPfIntAlwaysClear ==
    GenReturned =>
        \A k \in KvmFeatureEntries(gen_out.cpuid) :
            KVM_FEATURE_ASYNC_PF_INT_BIT \notin gen_out.cpuid[k].eax

\* C17, amended: without kvm_hyperv every entry of leaf 0x4000_0001 of a
\* returned table has EAX bit 14 clear; with kvm_hyperv the table holds one
\* entry of leaf 0x4000_0001, the Hyper-V interface leaf with EAX =
\* 0x31237648, in which bit 14 is set.
C17_AsyncPfIntClearUnlessHyperv ==
    GenReturned =>
        IF gen_args.kvm_hyperv
        THEN /\ Cardinality(KvmFeatureEntries(gen_out.cpuid)) = 1
             /\ \A k \in KvmFeatureEntries(gen_out.cpuid) :
                   gen_out.cpuid[k].eax = Word(12579, 30280)
        ELSE \A k \in KvmFeatureEntries(gen_out.cpuid) :
                 KVM_FEATURE_ASYNC_PF_INT_BIT \notin gen_out.cpuid[k].eax

\* The host advertised the bit and the returned table, without kvm_hyperv,
\* keeps the leaf with the bit cleared and the other bits kept.
C17_Witness ==
    /\ GenReturned
    /\ ~gen_args.kvm_hyperv
    /\ \E k \in KvmFeatureEntries(host_cpuid) :
          KVM_FEATURE_ASYNC_PF_INT_BIT \in host_cpuid[k].eax
    /\ \E k \in KvmFeatureEntries(gen_out.cpuid) :
          gen_out.cpuid[k].eax = {0, 3, 4, 24}

---------------------------------------------------------------------------
(* Claims on configure_system *)

RsdpPastRam ==
    /\ guest_mem.ranges # {}
    /\ args.rsdp_addr # None
    /\ args.rsdp_addr > last_addr(guest_mem)

\* C13 as stated: configure_system called with an RSDP address above the
\* last address of the guest memory returns RsdpPastRamEnd, with no
\* module-list entry, memory-map entry or start-info header written.
C13_RsdpPastRamEndAlways ==
    (sys.pc = "returned" /\ RsdpPastRam) =>
        /\ sys.result = "RsdpPastRamEnd"
        /\ BootRecords = {}

\* C13, amended: configure_system called with an RSDP address above the last
\* address of the guest memory returns an error with no module-list entry,
\* memory-map entry or start-info header written and configure_pvh not
\* entered; the error is RsdpPastRamEnd unless the EBDA pointer write, the
\* SMBIOS set-up or the MP-table set-up, which come first, failed, and then
\* it is that step's error.
C13_RsdpPastRamNoBootRecords ==
    /\ (sys.pc # "idle" /\ RsdpPastRam) =>
          /\ BootRecords = {}
          /\ pvh.pc = "idle"
          /\ sys.pc \in {"smbios", "mptable", "rsdp", "returned"}
    /\ (sys.pc = "returned" /\ RsdpPastRam) =>
          sys.result \in {"EbdaSetup", "SmbiosSetup", "MpTableSetup", "RsdpPastRamEnd"}
    /\ (sys.pc = "returned" /\ sys.result = "RsdpPastRamEnd") => RsdpPastRam

\* RsdpPastRamEnd returned with an initramfs supplied, on a memory that
\* holds every boot record.
C13_Witness ==
    /\ sys.pc = "returned"
    /\ sys.result = "RsdpPastRamEnd"
    /\ args.initramfs.some
    /\ last_addr(guest_mem) > HIGH_RAM_START
    /\ BootRecords = {}

---------------------------------------------------------------------------
(* Claims on add_memmap_entry *)

\* C14: after any sequence of add_memmap_entry calls the list equals the
\* sequence of (addr, size, type) triples passed, in call order, each with
\* reserved = 0; a call appends exactly one record and leaves the earlier
\* records unchanged.
C14_MemmapListIsCallSequence ==
    /\ [](/\ Len(memmap_vec) = Len(memmap_calls)
          /\ \A k \in 1..Len(memmap_vec) :
                memmap_vec[k] = [kind |-> "memmap", addr |-> memmap_calls[k][1],
                                 size |-> memmap_calls[k][2],
                                 type_ |-> memmap_calls[k][3], reserved |-> 0])
    /\ [][/\ Len(memmap_vec') = Len(memmap_vec) + 1
          /\ SubSeq(memmap_vec', 1, Len(memmap_vec)) = memmap_vec]_memmapVars

\* The two calls of the unit test: (0, 0x1000, RAM), (0x10000, 0xa000,
\* RESERVED).
C14_Witness ==
    /\ memmap_calls = << <<0, 4096, E820_RAM>>, <<65536, 40960, E820_RESERVED>> >>
    /\ Len(memmap_vec) = 2
    /\ memmap_vec[1].addr = 0 /\ memmap_vec[1].type_ = E820_RAM
    /\ memmap_vec[2].addr = 65536 /\ memmap_vec[2].size = 40960
    /\ memmap_vec[2].type_ = E820_RESERVED

---------------------------------------------------------------------------
(* Claims on the records configure_pvh writes *)

\* The addresses that hold a memory-map record.
MemmapRecordAddrs ==
    {a \in DOMAIN guest_mem.objs : guest_mem.objs[a].kind = "memmap"}

\* The first n slots of the table at MEMMAP_START.
MemmapSlots(n) == {MEMMAP_START + k * SizeOfMemmapEntry : k \in 0..(n - 1)}

\* The record in slot k (from 0).
MemmapRecord(k) == guest_mem.objs[MEMMAP_START + k * SizeOfMemmapEntry]

\* A record with the start, the last address and the type given.
Spans(record, first, last, mem_type) ==
    /\ record.addr = first
    /\ record.addr + record.size - 1 = last
    /\ record.type_ = mem_type
    /\ record.reserved = 0

MemEnd == last_addr(guest_mem)
HasUpperRam == MemEnd >= MEM_32BIT_RESERVED_START /\ MemEnd > RAM_64BIT_START

\* The slot of the PCI MMCONFIG record: after the RAM records.
PciSlot == IF HasUpperRam THEN 3 ELSE 2

\* C19: on success the memory-map records are, in order: (0, EBDA_START)
\* usable RAM; high RAM from HIGH_RAM_START, ending at the last guest address
\* when that is below MEM_32BIT_RESERVED_START, else clipped there and
\* followed by usable RAM from RAM_64BIT_START to the last address iff the
\* last address is above RAM_64BIT_START; the PCI MMCONFIG window, reserved;
\* and, iff an SGX EPC region was given, a reserved record with its start and
\* size.
C19_MemmapRecordOrder ==
    (pvh.pc = "returned" /\ pvh.result = "Ok") =>
        /\ MemmapRecordAddrs =
              MemmapSlots(PciSlot + 1 + (IF args.sgx_epc_region.some THEN 1 ELSE 0))
        /\ Spans(MemmapRecord(0), 0, EBDA_START - 1, E820_RAM)
        /\ IF MemEnd < MEM_32BIT_RESERVED_START
           THEN Spans(MemmapRecord(1), HIGH_RAM_START, MemEnd, E820_RAM)
           ELSE /\ Spans(MemmapRecord(1), HIGH_RAM_START,
                         MEM_32BIT_RESERVED_START - 1, E820_RAM)
                /\ HasUpperRam =>
                      Spans(MemmapRecord(2), RAM_64BIT_START, MemEnd, E820_RAM)
        /\ Spans(MemmapRecord(PciSlot), PCI_MMCONFIG_START,
                 PCI_MMCONFIG_START + PCI_MMCONFIG_SIZE - 1, E820_RESERVED)
        /\ args.sgx_epc_region.some =>
              /\ MemmapRecord(PciSlot + 1).addr = args.sgx_epc_region.start
              /\ MemmapRecord(PciSlot + 1).size = args.sgx_epc_region.size
              /\ MemmapRecord(PciSlot + 1).type_ = E820_RESERVED

\* Success on a memory that ends exactly at RAM_64BIT_START, with an SGX EPC
\* region: high RAM is clipped, no upper RAM record, four records.
C19_Witness ==
    /\ pvh.pc = "returned" /\ pvh.result = "Ok"
    /\ MemEnd = RAM_64BIT_START
    /\ args.sgx_epc_region.some
    /\ Cardinality(MemmapRecordAddrs) = 4
    /\ MemmapRecord(2).addr = PCI_MMCONFIG_START

\* The start-info header is in memory.
StartInfoPresent ==
    /\ PVH_INFO_START \in DOMAIN guest_mem.objs
    /\ guest_mem.objs[PVH_INFO_START].kind = "start_info"
    /\ guest_mem.objs[PVH_INFO_START].magic = XEN_HVM_START_MAGIC_VALUE

\* C20: in every state of a configure_pvh call on fresh guest memory the
\* records written so far fill the slots MEMMAP_START + k * stride from k = 0
\* on, and if the start-info header is present at PVH_INFO_START then every
\* record has been written: its memmap_entries field is the number of
\* records present.
C20_StartInfoAfterMemmap ==
    /\ MemmapRecordAddrs = MemmapSlots(pvh.written)
    /\ StartInfoPresent =>
          /\ pvh.written = Len(pvh.memmap)
          /\ guest_mem.objs[PVH_INFO_START].memmap_entries =
                Cardinality(MemmapRecordAddrs)
          /\ \A k \in 0..(Len(pvh.memmap) - 1) : MemmapRecord(k) = pvh.memmap[k + 1]

\* The header is present with five records counted, entered through
\* configure_system.
C20_Witness ==
    /\ StartInfoPresent
    /\ guest_mem.objs[PVH_INFO_START].memmap_entries = 5
    /\ Cardinality(MemmapRecordAddrs) = 5
    /\ sys.pc = "pvh"

---------------------------------------------------------------------------
(* Claims on the usable-RAM records of the memory map *)

\* The positions of the usable-RAM records in the map configure_pvh built.
RamRecords == {k \in 1..Len(pvh.memmap) : pvh.memmap[k].type_ = E820_RAM}

\* The RAM regions of the plan.
RamRegions == {k \in 1..Len(regions) : regions[k].type = "Ram"}

\* The record covers addresses of [addr, addr + size) only inside the region.
RecordInsideRegion(record, region) ==
    /\ region.start <= record.addr
    /\ record.addr + record.size <= region.start + region.size

\* [a, a + n) and [b, b + m) have no address in common.
Disjoint(a, n, b, m) == a + n <= b \/ b + m <= a

\* The map is built, for a RAM size above HIGH_RAM_START.
MemmapBuiltAboveHighRam == mem_size > HIGH_RAM_START /\ pvh.memmap # << >>

\* C23: for the memory of arch_memory_regions(size), size > HIGH_RAM_START,
\* every usable-RAM record of the memory map lies inside one RAM region of
\* the plan, the usable-RAM records are pairwise disjoint, and none of them
\* overlaps the reserved gap [MEM_32BIT_RESERVED_START, RAM_64BIT_START).
C23_RamRecordsWithinPlan ==
    MemmapBuiltAboveHighRam =>
        /\ \A k \in RamRecords :
              \E r \in RamRegions : RecordInsideRegion(pvh.memmap[k], regions[r])
        /\ \A j, k \in RamRecords :
              j # k => Disjoint(pvh.memmap[j].addr, pvh.memmap[j].size,
                                pvh.memmap[k].addr, pvh.memmap[k].size)
        /\ \A k \in RamRecords :
              Disjoint(pvh.memmap[k].addr, pvh.memmap[k].size,
                       MEM_32BIT_RESERVED_START,
                       RAM_64BIT_START - MEM_32BIT_RESERVED_START)

\* A memory of two RAM regions whose map holds three usable-RAM records,
\* the last one in the region above the gap.
C23_Witness ==
    /\ MemmapBuiltAboveHighRam
    /\ mem_size > MEM_32BIT_RESERVED_START + 1
    /\ Cardinality(RamRegions) = 2
    /\ Cardinality(RamRecords) = 3
    /\ \E k \in RamRecords : pvh.memmap[k].addr = RAM_64BIT_START
    /\ pvh.result = "Ok"

---------------------------------------------------------------------------
(* Claims on initramfs_load_addr *)

\* The range of the memory with the lowest start.
LowestRegion ==
    CHOOSE r \in initramfs_env.guest_mem.ranges :
        \A q \in initramfs_env.guest_mem.ranges : r.start <= q.start

\* A range of the memory holds guest address 0.
HoldsAddressZero ==
    \E r \in initramfs_env.guest_mem.ranges : r.start <= 0 /\ 0 < r.start + r.size

\* C21: initramfs_load_addr returns the error InitramfsAddress when no
\* region holds guest address 0 or the initramfs is larger than the lowest
\* RAM region; otherwise it returns a page-aligned address A with
\* A + initramfs_size <= size of the lowest RAM region.
C21_InitramfsLoadAddr ==
    initramfs_ret.called =>
        IF ~HoldsAddressZero \/ initramfs_ret.initramfs_size > LowestRegion.size
        THEN initramfs_ret.ret.status = "InitramfsAddress"
        ELSE /\ initramfs_ret.ret.status = "Ok"
             /\ initramfs_ret.ret.addr % initramfs_env.pagesize = 0
             /\ initramfs_ret.ret.addr + initramfs_ret.initramfs_size
                    <= LowestRegion.size

\* A call that succeeds with an address above 0 which the alignment moved
\* down from the end of the lowest region.
C21_Witness ==
    /\ initramfs_ret.called
    /\ initramfs_ret.ret.status = "Ok"
    /\ initramfs_ret.ret.addr > 0
    /\ initramfs_ret.initramfs_size > 0
    /\ initramfs_ret.ret.addr + initramfs_ret.initramfs_size < LowestRegion.size
    /\ Cardinality(initramfs_env.guest_mem.ranges) = 2

===========================================================================
